---------------------------- MODULE Spec2Model ----------------------------
(***************************************************************************)
(* State-machine model of the FUSB302 USB Type-C / Power Delivery port     *)
(* controller driver (drivers/mfd/fusb302.c).                              *)
(*                                                                         *)
(* The port context (struct fusb30x_chip, with the cached registers the    *)
(* driver writes through regmap) is the record `chip'.  Every C function   *)
(* of the driver that takes the chip is an operator from a chip record     *)
(* (and the event word) to the chip record it leaves behind; one worker    *)
(* tick (state_machine_typec) is one action.  The transceiver and the      *)
(* port partner are the environment: what the tick reads from the          *)
(* interrupt registers, the receive FIFO and the comparators is drawn      *)
(* from the values the hardware can present in the current register        *)
(* state.                                                                  *)
(***************************************************************************)
EXTENDS Integers, Sequences, FiniteSets, TLC

VARIABLES
    chip,       \* struct fusb30x_chip and the register bits the driver owns
    cable,      \* terminations the partner presents on <<CC1, CC2>>
    vbus,       \* STATUS0_VBUSOK as the comparator reports it
    rx_fifo,    \* receive FIFO of the transceiver (FUSB_REG_FIFO)
    irq,        \* interrupt causes latched by the cable and by VBUS
    scn,        \* the environment the port is exercised in (fixed)
    used,       \* how often the cable was plugged and the partner heard
    same_run,   \* history: consecutive CC samples equal to their predecessor
    attempts,   \* history: Source_Capabilities sent in a row, none confirmed
    resets,     \* history: hard resets sent since the port was unattached
    wq,         \* the work item, the interrupt thread, enable_irq, suspended
    hr,         \* the two hrtimers and their callbacks
    sent        \* history: SVIDs of the Discover Modes requests sent

vars ==
    <<chip, cable, vbus, rx_fifo, irq, scn, used, same_run, attempts, resets,
      wq, hr, sent>>

-----------------------------------------------------------------------------
(* Bounds of the model.                                                    *)

\* fusb302.h is not part of the sources; the three protocol limits are kept
\* small, every formula below is stated in terms of their names.
N_DEBOUNCE_CNT == 2
N_CAPS_COUNT == 3
N_HARDRESET_COUNT == 0
\* GoodCRC frames that can precede a message in the receive FIFO
MaxGoodCrc == 1
\* GoodCRC frames ahead of a Request in the receive FIFO
MaxCrcRun == 3

MaxPlugs == 1
MaxRx == 3
\* interrupt causes that can be pending together when a tick reads them
MaxInts == 2
MaxResets == N_HARDRESET_COUNT + 2

-----------------------------------------------------------------------------
(* Constants of the driver.                                                *)

TYPEC_CC_VOLT_OPEN == 0
TYPEC_CC_VOLT_RA == 1
TYPEC_CC_VOLT_RD == 2
TYPEC_CC_VOLT_RP == 3

\* probe: chip->n_caps_used = 1
N_CAPS_USED == 1
\* the message id travels in three header bits: msg_id & 0x7
MSG_ID_MASK == 7

\* control message types (PD header, count == 0)
CMT_GOODCRC == 1
CMT_ACCEPT == 3
CMT_REJECT == 4
CMT_PS_RDY == 6
CMT_GETSINKCAP == 8
CMT_DR_SWAP == 9
CMT_PR_SWAP == 10
CMT_VCONN_SWAP == 11
CMT_WAIT == 12
CMT_SOFTRESET == 13
\* data message types (PD header, count > 0)
DMT_SOURCECAPABILITIES == 1
DMT_REQUEST == 2
DMT_SINKCAPABILITIES == 4
DMT_VENDERDEFINED == 15

\* structured VDM header: command type and command
VDM_TYPE_INIT == 0
VDM_TYPE_ACK == 1
VDM_TYPE_NACK == 2
VDM_DISCOVERY_ID == 1
VDM_DISCOVERY_SVIDS == 2
VDM_DISCOVERY_MODES == 3
VDM_ENTER_MODE == 4
VDM_EXIT_MODE == 5
VDM_ATTENTION == 6
VDM_DP_STATUS_UPDATE == 16
VDM_DP_CONFIG == 17

\* enum vdm_state
VDM_STATE_DISCOVERY_ID == 0
VDM_STATE_DISCOVERY_SVID == 1
VDM_STATE_DISCOVERY_MODES == 2
VDM_STATE_ENTER_MODE == 3
VDM_STATE_UPDATE_STATUS == 4
VDM_STATE_DP_CONFIG == 5
VDM_STATE_NOTIFY == 6
VDM_STATE_READY == 7
VDM_STATE_ERR == 8

MODE_DP_PIN_A == 1
MODE_DP_PIN_B == 2
MODE_DP_PIN_C == 4
MODE_DP_PIN_D == 8
MODE_DP_PIN_E == 16
MODE_DP_PIN_F == 32

-----------------------------------------------------------------------------
(* Bit arithmetic on naturals.                                             *)

RECURSIVE Pow2(_)
Pow2(n) == IF n = 0 THEN 1 ELSE 2 * Pow2(n - 1)

\* bit n of x
Bit(x, n) == (x \div Pow2(n)) % 2

\* bits [lo+w-1 : lo] of x
Bits(x, lo, w) == (x \div Pow2(lo)) % Pow2(w)

\* x & ~m for a 6-bit x and mask m
RECURSIVE AndNot6(_, _, _)
AndNot6(x, m, n) ==
    IF n = 6 THEN 0
    ELSE (IF Bit(x, n) = 1 /\ Bit(m, n) = 0 THEN Pow2(n) ELSE 0)
         + AndNot6(x, m, n + 1)

\* x & m for 6-bit x and m
And6(x, m) == AndNot6(x, 63 - m, 0)

\* 31 - __builtin_clz(x) for 0 < x < 64: index of the highest set bit
RECURSIVE HighBit(_, _)
HighBit(x, n) == IF Bit(x, n) = 1 THEN n ELSE HighBit(x, n - 1)

(* A 32-bit data object is the pair <<bits 31..16, bits 15..0>>.           *)
W(hi, lo) == <<hi, lo>>
W0 == <<0, 0>>
Hi(w) == w[1]
Lo(w) == w[2]


-----------------------------------------------------------------------------
(* PD header: type [3:0], data role [5], revision [7:6], power role [8],   *)
(* message id [11:9], object count [14:12], as set_mesg packs it.          *)

POWER_ROLE_SINK == 0
POWER_ROLE_SOURCE == 1
DATA_ROLE_UFP == 0
DATA_ROLE_DFP == 1

Header(id, pr, dr, cnt, type) ==
    (id % 8) * 512 + (pr % 2) * 256 + 64 + (dr % 2) * 32 + cnt * 4096
    + (type % 16)

PD_HEADER_CNT(h) == Bits(h, 12, 3)
PD_HEADER_TYPE(h) == Bits(h, 0, 4)
PD_HEADER_ID(h) == Bits(h, 9, 3)

PACKET_IS_CONTROL_MSG(h, type) ==
    PD_HEADER_CNT(h) = 0 /\ PD_HEADER_TYPE(h) = type

PACKET_IS_DATA_MSG(h, type) ==
    PD_HEADER_CNT(h) # 0 /\ PD_HEADER_TYPE(h) = type

\* a frame in a FIFO: header and data objects
Frame(h, load) == [head |-> h, load |-> load]

\* data objects padded to the 7 entries of rec_load / send_load
Pad7(load) == [i \in 1..7 |-> IF i <= Len(load) THEN load[i] ELSE W0]

\* Request data object: object position in bits 30..28
RDO(pos) == W(pos * 4096, 0)
\* fixed-supply PDO: type in bits 31..30, voltage (50 mV) in bits 19..10,
\* current (10 mA) in bits 9..0
PDO(type, volt, cur) ==
    W(type * 16384 + (volt \div 64), (volt % 64) * 1024 + cur)
CAP_POWER_TYPE(w) == Bits(Hi(w), 14, 2)
CAP_FPDO_VOLTAGE(w) == (Hi(w) % 16) * 64 + (Lo(w) \div 1024)
CAP_FPDO_CURRENT(w) == Lo(w) % 1024
\* battery supply: maximum voltage in bits 29..20, power in bits 9..0
CAP_VPDO_VOLTAGE(w) == (Hi(w) \div 16) % 1024
CAP_VPDO_CURRENT(w) == Lo(w) % 1024

\* structured VDM header: SVID [31:16], structured [15], command type
\* [7:6], command [4:0]
VDMHeader(svid, ctype, cmd) == W(svid, 32768 + ctype * 64 + cmd)
GET_VDMHEAD_STRUCT_TYPE(w) == Bit(Lo(w), 15)
GET_VDMHEAD_CMD_TYPE(w) == Bits(Lo(w), 6, 2)
GET_VDMHEAD_CMD(w) == Bits(Lo(w), 0, 5)

-----------------------------------------------------------------------------
(* Timer values: chip->timer_state and chip->timer_mux hold T_DISABLED,    *)
(* the armed duration, or 0 once fusb_timer_handler has run.               *)

T_DISABLED == "T_DISABLED"
T_ZERO == "0"

-----------------------------------------------------------------------------
(* chip->cc_state: toggle result, role bits and CC bits.                   *)

CcState(role, cc) == [role |-> role, cc |-> cc]
CcZero == CcState("NONE", 0)
CC_STATE_ROLE(c) == c.cc_state.role
CC_STATE_TOGSS_CC1(c) == Bit(c.cc_state.cc, 0) = 1
CC_STATE_TOGSS_CC2(c) == Bit(c.cc_state.cc, 1) = 1

\* set_cc_state on the TOGSS field of STATUS1A
set_cc_state(togss) ==
    IF Bit(togss, 2) = 1
    THEN IF togss % 4 = 3 THEN CcState("ACC", 3)
         ELSE CcState("UFP", togss % 4)
    ELSE CcState("DFP", togss % 4)

-----------------------------------------------------------------------------
(* The notify snapshot.                                                    *)

NotifyZero ==
    [orientation |-> "NONE", power_role |-> POWER_ROLE_SINK,
     data_role |-> DATA_ROLE_UFP, is_cc_connected |-> FALSE,
     is_pd_connected |-> FALSE, is_enter_mode |-> FALSE,
     pin_assignment_support |-> 0, pin_assignment_def |-> 0,
     attention |-> FALSE, dp_status |-> 0, dp_caps |-> W0]

-----------------------------------------------------------------------------
(* The port context after fusb30x_probe for a configured role / try_role.  *)

ChipInit(role, try_role) ==
    [role |-> role, try_role |-> try_role, try_role_complete |-> FALSE,
     conn_state |-> "unattached", sub_state |-> 0, val_tmp |-> 0,
     work_continue |-> {},
     cc_state |-> CcZero, cc1 |-> 0, cc2 |-> 0,
     cc_polarity |-> "TYPEC_POLARITY_CC1", debounce_cnt |-> 0,
     vbus_begin |-> FALSE, is_pd_support |-> FALSE,
     msg_id |-> 0, tx_state |-> "tx_idle",
     rec_head |-> 0, rec_load |-> Pad7(<<>>),
     send_head |-> 0, send_load |-> Pad7(<<>>),
     timer_state |-> T_DISABLED, timer_mux |-> T_DISABLED,
     hardrst_count |-> 0, caps_counter |-> 0, pos_power |-> 0,
     partner_cap |-> Pad7(<<>>), n_caps_used |-> N_CAPS_USED,
     vdm_state |-> VDM_STATE_DISCOVERY_ID, vdm_send_state |-> 0,
     vdm_svid |-> <<>>, vdm_svid_num |-> 0, vdm_id |-> W0,
     notify |-> NotifyZero, notify_cmp |-> NotifyZero,
     vconn_enabled |-> FALSE, vconn_supported |-> TRUE,
     data_role_swap |-> TRUE,
     \* register bits and actuators the driver drives
     toggle |-> TRUE,          \* CONTROL2_TOGGLE
     tog_mode |-> role,        \* CONTROL2_MODE
     auto_crc |-> FALSE,       \* SWITCHES1_AUTO_CRC (receiver enabled)
     mask_comp_chng |-> TRUE,  \* MASK_M_COMP_CHNG
     cc_pull |-> "CC_PULL_NONE",
     vbus_5v |-> FALSE,        \* gpio_vbus_5v / EXTCON_USB_VBUS_EN
     hw_tx |-> "none",         \* transmission in flight in the transceiver
     tx_fifo |-> Frame(0, <<>>),  \* last frame written to FUSB_REG_FIFO
     retry |-> 0]              \* `static int retry' of tcpc_alert


-----------------------------------------------------------------------------
(* Leaf operations of the driver.                                          *)

set_state(c, state) ==
    [c EXCEPT !.conn_state = state, !.sub_state = 0, !.val_tmp = 0,
              !.work_continue = @ \cup {"EVENT_WORK_CONTINUE"}]

\* the snapshot with the orientation of a connected port filled in
NotifyOriented(c) ==
    IF c.notify.is_cc_connected
    THEN [c.notify EXCEPT !.orientation =
              IF c.cc_polarity = "TYPEC_POLARITY_CC1" THEN "CC1" ELSE "CC2"]
    ELSE c.notify

\* the hand-over without the memcpy to notify_cmp
NotifyHandOverStale(c, n) ==
    IF n # c.notify_cmp
    THEN [c EXCEPT !.notify = [n EXCEPT !.attention = FALSE]]
    ELSE [c EXCEPT !.notify = n]

NotifyHandOver(c, n) ==
    IF n # c.notify_cmp
    THEN [c EXCEPT !.notify = [n EXCEPT !.attention = FALSE],
                   !.notify_cmp = [n EXCEPT !.attention = FALSE]]
    ELSE [c EXCEPT !.notify = n]

platform_fusb_notify(c) == NotifyHandOver(c, NotifyOriented(c))

platform_set_vbus_lvl_enable(c, vbus_5v) == [c EXCEPT !.vbus_5v = vbus_5v]

\* comparator result with a pull-up on a line the partner terminates with t
tcpm_get_cc_pull_up(t) ==
    IF t = "Rd" THEN TYPEC_CC_VOLT_RD
    ELSE IF t = "Ra" THEN TYPEC_CC_VOLT_RA
    ELSE TYPEC_CC_VOLT_OPEN

\* BC_LVL with a pull-down on a line the partner terminates with t
tcpm_get_cc_pull_down(t) ==
    IF t = "Rp" THEN TYPEC_CC_VOLT_RP ELSE TYPEC_CC_VOLT_OPEN

\* <<cc1, cc2>> as tcpm_get_cc leaves them
tcpm_get_cc(c, cab) ==
    IF CC_STATE_ROLE(c) = "UFP"
    THEN <<tcpm_get_cc_pull_down(cab[1]), tcpm_get_cc_pull_down(cab[2])>>
    ELSE IF CC_STATE_ROLE(c) = "DFP"
    THEN IF CC_STATE_TOGSS_CC1(c)
         THEN <<tcpm_get_cc_pull_up(cab[1]), TYPEC_CC_VOLT_OPEN>>
         ELSE <<TYPEC_CC_VOLT_OPEN, tcpm_get_cc_pull_up(cab[2])>>
    ELSE <<tcpm_get_cc_pull_up(cab[1]), tcpm_get_cc_pull_up(cab[2])>>

tcpm_set_cc_pull_mode(c, mode) == [c EXCEPT !.cc_pull = mode]

tcpm_set_cc(c, mode) ==
    [c EXCEPT !.cc_pull = IF mode = "ROLE_MODE_DRP" THEN "CC_PULL_NONE"
                          ELSE "CC_PULL_UP",
              !.tog_mode = mode, !.toggle = TRUE]

tcpm_set_rx_enable(c, enable) == [c EXCEPT !.auto_crc = enable]

tcpm_set_polarity(c, polarity) == [c EXCEPT !.cc_polarity = polarity]

tcpm_set_vconn(c, enable) == [c EXCEPT !.vconn_enabled = enable]

\* polarity the toggle result names
TogglePolarity(c) ==
    IF CC_STATE_TOGSS_CC1(c) THEN "TYPEC_POLARITY_CC1"
    ELSE "TYPEC_POLARITY_CC2"

\* RESET_PD_RESET: the PD logic of the transceiver drops what it was sending
fusb302_pd_reset(c) == [c EXCEPT !.hw_tx = "none"]

\* a tcpm_init that leaves the VBUS supply as it is
tcpm_initKeepVbus(c) ==
    [c EXCEPT !.notify.is_cc_connected = FALSE,
              !.cc_state = CcZero, !.toggle = FALSE, !.auto_crc = FALSE,
              !.mask_comp_chng = TRUE, !.hw_tx = "none",
              !.vconn_enabled = FALSE]

\* RESET_SW_RESET and the register defaults tcpm_init writes
tcpm_init(c) ==
    [c EXCEPT !.vbus_5v = FALSE, !.notify.is_cc_connected = FALSE,
              !.cc_state = CcZero, !.toggle = FALSE, !.auto_crc = FALSE,
              !.mask_comp_chng = TRUE, !.hw_tx = "none",
              !.vconn_enabled = FALSE]

pd_execute_hard_reset(c) ==
    set_state([c EXCEPT !.msg_id = 0, !.vdm_state = VDM_STATE_DISCOVERY_ID],
              IF c.notify.power_role # 0
              THEN "policy_src_transition_default"
              ELSE "policy_snk_transition_default")

set_state_unattached(c) ==
    [platform_fusb_notify(
         [tcpm_set_cc(set_state(tcpm_set_rx_enable(tcpm_init(c), FALSE),
                                "unattached"),
                      c.role)
             EXCEPT !.notify = NotifyZero])
        EXCEPT !.mask_comp_chng = TRUE, !.try_role_complete = FALSE]

-----------------------------------------------------------------------------
(* Event collection: tcpc_alert reads (and so clears) the interrupt        *)
(* registers, mux_alert adds the timer and continuation events.            *)

\* the event bits tcpc_alert raises from the interrupts `in.ints'
tcpc_alert_evt(c, in) ==
    (IF "COMP_CHNG" \in in.ints /\ CC_STATE_ROLE(c) # "UFP" /\ in.comp
     THEN {"EVENT_CC"} ELSE {})
    \cup (IF "VBUSOK" \in in.ints /\ c.notify.is_cc_connected
          THEN {"EVENT_CC"} ELSE {})
    \cup (IF "TOGDONE" \in in.ints THEN {"EVENT_CC"} ELSE {})
    \cup (IF "TXSENT" \in in.ints THEN {"EVENT_TX"} ELSE {})
    \cup (IF "GCRCSENT" \in in.ints THEN {"EVENT_RX"} ELSE {})
    \cup (IF "HARDRST" \in in.ints THEN {"EVENT_REC_RESET"} ELSE {})
    \cup (IF "RETRYFAIL" \in in.ints THEN {"EVENT_TX"} ELSE {})
    \cup (IF "HARDSENT" \in in.ints /\ c.retry # 0
          THEN {"EVENT_TX"} ELSE {})

\* the chip as tcpc_alert leaves it
AlertTogdone(c, in) ==
    IF "TOGDONE" \in in.ints
    THEN [c EXCEPT !.cc_state = set_cc_state(in.togss), !.toggle = FALSE]
    ELSE c

AlertTxsent(c, in) ==
    IF "TXSENT" \in in.ints
    THEN [c EXCEPT !.tx_state = "tx_success", !.hw_tx = "none"]
    ELSE c

AlertHardrst(c, in) ==
    IF "HARDRST" \in in.ints
    THEN pd_execute_hard_reset(fusb302_pd_reset(c))
    ELSE c

AlertRetryfail(c, in) ==
    IF "RETRYFAIL" \in in.ints
    THEN [c EXCEPT !.tx_state = "tx_failed", !.hw_tx = "none"]
    ELSE c

AlertHardsent(c, in) ==
    IF "HARDSENT" \in in.ints
    THEN IF c.retry = 0
         THEN pd_execute_hard_reset(fusb302_pd_reset([c EXCEPT !.retry = 1]))
         ELSE [c EXCEPT !.retry = 0, !.tx_state = "tx_success",
                        !.timer_state = T_DISABLED, !.hw_tx = "none"]
    ELSE c

tcpc_alert(c, in) ==
    AlertHardsent(
        AlertRetryfail(
            AlertHardrst(AlertTxsent(AlertTogdone(c, in), in), in), in), in)

mux_alert_evt(c) ==
    (IF c.timer_mux = T_ZERO THEN {"EVENT_TIMER_MUX"} ELSE {})
    \cup (IF c.timer_state = T_ZERO THEN {"EVENT_TIMER_STATE"} ELSE {})
    \cup c.work_continue

\* a mux_alert that stops the timers it finds running
mux_alertStop(c) ==
    [c EXCEPT !.timer_mux = T_DISABLED, !.timer_state = T_DISABLED,
              !.work_continue = {}]

mux_alert(c) ==
    [c EXCEPT !.timer_mux = IF @ = T_ZERO THEN T_DISABLED ELSE @,
              !.timer_state = IF @ = T_ZERO THEN T_DISABLED ELSE @,
              !.work_continue = {}]


-----------------------------------------------------------------------------
(* Type-C connection states.  `env' is what the transceiver measures       *)
(* during the tick: env.cable the partner's terminations on CC1 and CC2,   *)
(* env.vbus STATUS0_VBUSOK.                                                *)

tcpm_check_vbus(env) == env.vbus

fusb_state_disabled(c, evt) == c

\* the part of fusb_state_unattached and fusb_state_try_attach that
\* starts the debounce
StoreSample(c, cc) ==
    [c EXCEPT !.cc1 = cc[1], !.cc2 = cc[2], !.debounce_cnt = 0,
              !.timer_mux = "2ms"]

SampleCc(c, env) == StoreSample(c, tcpm_get_cc(c, env.cable))

StartDebounce(c, env) ==
    SampleCc(tcpm_set_polarity(c, TogglePolarity(c)), env)

fusb_state_unattached(c, evt, env) ==
    IF "EVENT_CC" \in evt /\ c.cc_state # CcZero
    THEN StartDebounce(
             [set_state(c, IF CC_STATE_ROLE(c) = "UFP" THEN "attach_wait_sink"
                           ELSE IF CC_STATE_ROLE(c) = "DFP"
                           THEN "attach_wait_source"
                           ELSE "attach_wait_audio_acc")
                 EXCEPT !.notify.is_cc_connected = FALSE,
                        !.is_pd_support = FALSE,
                        !.vbus_begin = tcpm_check_vbus(env)],
             env)
    ELSE [c EXCEPT !.notify.is_cc_connected = FALSE, !.is_pd_support = FALSE]

fusb_state_try_attach_set(c, mode) ==
    IF mode \notin {"ROLE_MODE_DFP", "ROLE_MODE_UFP"} THEN c
    ELSE set_state([tcpm_set_cc(tcpm_init(c), mode)
                       EXCEPT !.timer_mux = "T_PD_TRY_DRP"],
                   IF mode = "ROLE_MODE_DFP" THEN "attach_try_src"
                   ELSE "attach_try_snk")

\* a debounce that goes on counting over a changed sample
CompareSampleOn(c, cc) ==
    [c EXCEPT !.cc1 = cc[1], !.cc2 = cc[2], !.debounce_cnt = @ + 1]

\* the debounce step shared by the three attach_wait handlers: compare the
\* fresh sample with the stored one
CompareSample(c, cc) ==
    IF c.cc1 = cc[1] /\ c.cc2 = cc[2]
    THEN [c EXCEPT !.debounce_cnt = @ + 1]
    ELSE [c EXCEPT !.cc1 = cc[1], !.cc2 = cc[2], !.debounce_cnt = 0]

Debounce(c, env) == CompareSample(c, tcpm_get_cc(c, env.cable))

\* a decision that takes any debounced sample for a source
AttachWaitSinkAny(c) ==
    IF c.debounce_cnt > N_DEBOUNCE_CNT
    THEN set_state([c EXCEPT !.timer_mux = "T_PD_SOURCE_ON"], "attached_sink")
    ELSE [c EXCEPT !.timer_mux = "2ms"]

\* the decision of fusb_state_attach_wait_sink on the debounced sample
AttachWaitSinkDecide(c) ==
    IF c.debounce_cnt > N_DEBOUNCE_CNT
    THEN IF \/ (c.cc1 = TYPEC_CC_VOLT_RP /\ c.cc2 = TYPEC_CC_VOLT_OPEN)
            \/ (c.cc2 = TYPEC_CC_VOLT_RP /\ c.cc1 = TYPEC_CC_VOLT_OPEN)
         THEN set_state([c EXCEPT !.timer_mux = "T_PD_SOURCE_ON"],
                        "attached_sink")
         ELSE set_state_unattached([c EXCEPT !.timer_mux = T_DISABLED])
    ELSE [c EXCEPT !.timer_mux = "2ms"]

\* an attach_wait_sink that attaches as sink without the try as source
AttachWaitSinkNoTry(c, evt, env) ==
    IF "EVENT_TIMER_MUX" \notin evt THEN c
    ELSE IF tcpm_check_vbus(env)
    THEN set_state([c EXCEPT !.timer_mux = "T_PD_SOURCE_ON"],
                   "attached_sink")
    ELSE AttachWaitSinkDecide(Debounce(c, env))

fusb_state_attach_wait_sink(c, evt, env) ==
    IF "EVENT_TIMER_MUX" \notin evt THEN c
    ELSE IF tcpm_check_vbus(env) /\ c.role = "ROLE_MODE_DRP"
            /\ c.try_role = "ROLE_MODE_DFP" /\ ~c.try_role_complete
    THEN fusb_state_try_attach_set([c EXCEPT !.timer_mux = T_DISABLED],
                                   "ROLE_MODE_DFP")
    ELSE IF tcpm_check_vbus(env) /\ c.try_role_complete
    THEN set_state([c EXCEPT !.timer_mux = "T_PD_SOURCE_ON"],
                   "attached_sink")
    ELSE AttachWaitSinkDecide(
             Debounce([c EXCEPT !.timer_mux =
                                    IF tcpm_check_vbus(env) THEN T_DISABLED
                                    ELSE @],
                      env))

\* a debounce that gives in one sample early
AttachWaitSourceEarly(c) ==
    IF c.debounce_cnt >= N_DEBOUNCE_CNT
    THEN IF /\ (c.cc1 = 0 \/ c.cc2 = 0)
            /\ (c.cc1 = TYPEC_CC_VOLT_RD \/ c.cc2 = TYPEC_CC_VOLT_RD)
         THEN IF c.role = "ROLE_MODE_DRP" /\ c.try_role = "ROLE_MODE_UFP"
                 /\ ~c.try_role_complete
              THEN fusb_state_try_attach_set(c, "ROLE_MODE_UFP")
              ELSE set_state(c, "attached_source")
         ELSE set_state_unattached(c)
    ELSE [c EXCEPT !.timer_mux = "2ms"]

\* the decision of fusb_state_attach_wait_source on the debounced sample
AttachWaitSourceDecide(c) ==
    IF c.debounce_cnt > N_DEBOUNCE_CNT
    THEN IF /\ (c.cc1 = 0 \/ c.cc2 = 0)
            /\ (c.cc1 = TYPEC_CC_VOLT_RD \/ c.cc2 = TYPEC_CC_VOLT_RD)
         THEN IF c.role = "ROLE_MODE_DRP" /\ c.try_role = "ROLE_MODE_UFP"
                 /\ ~c.try_role_complete
              THEN fusb_state_try_attach_set(c, "ROLE_MODE_UFP")
              ELSE set_state(c, "attached_source")
         ELSE set_state_unattached(c)
    ELSE [c EXCEPT !.timer_mux = "2ms"]

fusb_state_attach_wait_source(c, evt, env) ==
    IF "EVENT_TIMER_MUX" \notin evt THEN c
    ELSE AttachWaitSourceDecide(Debounce(c, env))

fusb_state_attached_source(c, evt) ==
    [set_state(tcpm_set_vconn(
                   tcpm_set_polarity(platform_set_vbus_lvl_enable(c, TRUE),
                                     TogglePolarity(c)),
                   TRUE),
               "policy_src_startup")
        EXCEPT !.notify.is_cc_connected = TRUE,
               !.notify.power_role = POWER_ROLE_SOURCE,
               !.notify.data_role = DATA_ROLE_DFP,
               !.hardrst_count = 0,
               !.mask_comp_chng = FALSE]

fusb_state_attached_sink(c, evt, env) ==
    IF tcpm_check_vbus(env)
    THEN IF ~c.try_role_complete /\ c.try_role = "ROLE_MODE_DFP"
            /\ c.role = "ROLE_MODE_DRP"
         THEN fusb_state_try_attach_set(
                  [c EXCEPT !.timer_mux = T_DISABLED,
                            !.timer_state = T_DISABLED],
                  "ROLE_MODE_DFP")
         ELSE set_state(
                  [c EXCEPT !.timer_mux = T_DISABLED,
                            !.timer_state = T_DISABLED,
                            !.try_role_complete = TRUE,
                            !.notify.is_cc_connected = TRUE,
                            !.notify.power_role = POWER_ROLE_SINK,
                            !.notify.data_role = DATA_ROLE_UFP,
                            !.hardrst_count = 0],
                  "policy_snk_startup")
    ELSE IF "EVENT_TIMER_MUX" \in evt THEN set_state_unattached(c)
    ELSE [c EXCEPT !.timer_state = "2ms"]

fusb_state_try_attach(c, evt, env, mode) ==
    IF "EVENT_CC" \in evt /\ c.cc_state # CcZero
    THEN StartDebounce(
             set_state([c EXCEPT !.try_role_complete = TRUE],
                       IF CC_STATE_ROLE(c) = "UFP"
                       THEN IF mode = "ROLE_MODE_UFP" THEN "attach_wait_sink"
                            ELSE "error_recovery"
                       ELSE IF mode = "ROLE_MODE_DFP"
                            THEN "attach_wait_source"
                            ELSE "error_recovery"),
             env)
    ELSE IF "EVENT_TIMER_MUX" \in evt
    THEN IF ~c.try_role_complete
         THEN fusb_state_try_attach_set(
                  [c EXCEPT !.try_role_complete = TRUE],
                  IF mode = "ROLE_MODE_DFP" THEN "ROLE_MODE_UFP"
                  ELSE "ROLE_MODE_DFP")
         ELSE set_state(c, "error_recovery")
    ELSE c

\* the decision of fusb_state_attach_wait_audio_acc on the debounced sample
AttachWaitAccDecide(c) ==
    IF c.debounce_cnt > N_DEBOUNCE_CNT
    THEN IF c.cc1 = TYPEC_CC_VOLT_RA /\ c.cc2 = TYPEC_CC_VOLT_RA
         THEN [set_state(c, "attached_audio_acc") EXCEPT !.timer_mux = "2ms"]
         ELSE set_state_unattached(c)
    ELSE [c EXCEPT !.timer_mux = "2ms"]

fusb_state_attach_wait_audio_acc(c, evt, env) ==
    IF "EVENT_TIMER_MUX" \notin evt THEN c
    ELSE AttachWaitAccDecide(Debounce(c, env))

fusb_state_attached_audio_acc(c, evt) ==
    [set_state(tcpm_set_polarity(c, TogglePolarity(c)), "disabled")
        EXCEPT !.notify.is_cc_connected = TRUE, !.hardrst_count = 0,
               !.mask_comp_chng = FALSE]

\* a soft reset that keeps the message id and the capabilities counter
SoftResetKeepCounters(c) ==
    [c EXCEPT !.vdm_state = VDM_STATE_DISCOVERY_ID, !.vdm_send_state = 0,
              !.val_tmp = 0, !.pos_power = 0]

fusb_soft_reset_parameter(c) ==
    [c EXCEPT !.caps_counter = 0, !.msg_id = 0,
              !.vdm_state = VDM_STATE_DISCOVERY_ID, !.vdm_send_state = 0,
              !.val_tmp = 0, !.pos_power = 0]


-----------------------------------------------------------------------------
(* Message staging, transmission and reception.                            *)

FLAG_EVENT == {"EVENT_RX", "EVENT_TIMER_MUX", "EVENT_TIMER_STATE"}

\* the source capability fusb30x_probe configures: fixed supply, dual-role
\* power, externally powered, data-role swap, 0x64 * 50 mV, 0x96 * 10 mA
SourceCap == W(8192 + 2048 + 512 + 1, 36864 + 150)

\* the Request data object set_mesg builds for partner capability `cap':
\* position [30:28], no-USB-suspend [26], and the current; the voltage
\* term `(v << 10) & 0x3ff' is always 0
RequestObject(pos, cap) ==
    W((pos % 8) * 4096 + 1024,
      IF CAP_POWER_TYPE(cap) = 0 THEN CAP_FPDO_CURRENT(cap)
      ELSE IF CAP_POWER_TYPE(cap) = 1 THEN CAP_VPDO_CURRENT(cap)
      ELSE 0)

\* `ub' is the word found at rec_load[-1], which set_mesg reads when it
\* builds a Request with pos_power = 0
\* the header set_mesg builds: message id and roles of the port
SendHeader(c, cnt, type) ==
    Header(c.msg_id, c.notify.power_role, c.notify.data_role, cnt, type)

set_mesg_ub(c, cmd, is_DMT, ub) ==
    IF ~is_DMT THEN [c EXCEPT !.send_head = SendHeader(c, 0, cmd)]
    ELSE IF cmd = DMT_SOURCECAPABILITIES
    THEN [c EXCEPT !.send_head = SendHeader(c, c.n_caps_used % 4, cmd),
                   !.send_load = [i \in 1..7 |->
                       IF i <= c.n_caps_used THEN SourceCap ELSE @[i]]]
    ELSE IF cmd = DMT_REQUEST
    THEN [c EXCEPT !.send_head = SendHeader(c, 1, cmd),
                   !.send_load[1] =
                       RequestObject(c.pos_power,
                           IF c.pos_power \in 1..7
                           THEN c.rec_load[c.pos_power] ELSE ub)]
    ELSE [c EXCEPT !.send_head = SendHeader(c, 0, 0)]

set_mesg(c, cmd, is_DMT) == set_mesg_ub(c, cmd, is_DMT, W0)

\* the data objects of a header's count, out of a 7-entry buffer
Payload(h, load) == [i \in 1..PD_HEADER_CNT(h) |-> load[i]]

policy_send_data(c) ==
    IF c.tx_state = "tx_idle"
    THEN [c EXCEPT !.tx_fifo = Frame(c.send_head,
                                     Payload(c.send_head, c.send_load)),
                   !.hw_tx = "msg", !.tx_state = "tx_busy"]
    ELSE c

policy_send_hardrst(c, evt) ==
    IF c.tx_state = "tx_idle"
    THEN [c EXCEPT !.hw_tx = "hardrst", !.tx_state = "tx_busy",
                   !.timer_state = "T_BMC_TIMEOUT"]
    ELSE IF "EVENT_TIMER_STATE" \in evt
    THEN [c EXCEPT !.tx_state = "tx_success"]
    ELSE c

\* frames tcpm_get_message takes out of the receive FIFO `fifo': every
\* leading GoodCRC and the frame after them
RECURSIVE FramesRead(_)
FramesRead(fifo) ==
    IF fifo = <<>> THEN 0
    ELSE IF PACKET_IS_CONTROL_MSG(fifo[1].head, CMT_GOODCRC)
    THEN 1 + FramesRead(Tail(fifo))
    ELSE 1

\* the frame the do-while loop of tcpm_get_message stops at; an empty FIFO
\* reads as zeroes
FrameAt(fifo, n) ==
    IF n = 0 \/ PACKET_IS_CONTROL_MSG(fifo[n].head, CMT_GOODCRC)
    THEN Frame(0, <<>>)
    ELSE fifo[n]

FrameKept(fifo) == FrameAt(fifo, FramesRead(fifo))

\* memcpy(chip->rec_load, buf, len): only the words of the frame are
\* overwritten
StoreFrame(c, f) ==
    [c EXCEPT !.rec_head = f.head,
              !.rec_load = [i \in 1..7 |->
                  IF i <= PD_HEADER_CNT(f.head) /\ i <= Len(f.load)
                  THEN f.load[i] ELSE @[i]]]

\* a reader that stops at the first frame, whatever it is
GetMessageFirst(c, fifo) ==
    StoreFrame(c, IF fifo = <<>> THEN Frame(0, <<>>) ELSE fifo[1])

tcpm_get_message(c, fifo) == StoreFrame(c, FrameKept(fifo))

\* the receive FIFO after tcpm_get_message
FifoAfterRead(fifo) == SubSeq(fifo, FramesRead(fifo) + 1, Len(fifo))

-----------------------------------------------------------------------------
(* Source policy engine.                                                   *)

fusb_state_src_startup(c, evt) ==
    platform_fusb_notify(
        set_state(
            tcpm_set_rx_enable(
                tcpm_set_polarity(
                    [fusb_soft_reset_parameter(
                         [c EXCEPT !.notify.is_pd_connected = FALSE])
                        EXCEPT !.partner_cap = Pad7(<<>>)],
                    c.cc_polarity),
                TRUE),
            "policy_src_send_caps"))

\* the choice the source makes when the no-response timer (timer_mux)
\* expires
NoResponse(c) ==
    IF ~c.is_pd_support THEN set_state(c, "disabled")
    ELSE IF c.hardrst_count > N_HARDRESET_COUNT
    THEN set_state(c, "error_recovery")
    ELSE set_state(c, "policy_src_send_hardrst")

\* a retry bound that lets one more attempt through
SrcDiscoveryOneMore(c, evt) ==
    IF c.sub_state = 0
    THEN IF c.caps_counter + 1 <= N_CAPS_COUNT
         THEN [c EXCEPT !.caps_counter = @ + 1,
                        !.timer_state = "T_TYPEC_SEND_SOURCECAP",
                        !.sub_state = 1]
         ELSE set_state([c EXCEPT !.caps_counter = @ + 1], "disabled")
    ELSE IF "EVENT_TIMER_STATE" \in evt
    THEN set_state(c, "policy_src_send_caps")
    ELSE IF "EVENT_TIMER_MUX" \in evt THEN NoResponse(c)
    ELSE c

fusb_state_src_discovery(c, evt) ==
    IF c.sub_state = 0
    THEN IF c.caps_counter + 1 < N_CAPS_COUNT
         THEN [c EXCEPT !.caps_counter = @ + 1,
                        !.timer_state = "T_TYPEC_SEND_SOURCECAP",
                        !.sub_state = 1]
         ELSE set_state([c EXCEPT !.caps_counter = @ + 1], "disabled")
    ELSE IF "EVENT_TIMER_STATE" \in evt
    THEN set_state(c, "policy_src_send_caps")
    ELSE IF "EVENT_TIMER_MUX" \in evt THEN NoResponse(c)
    ELSE c

\* `default:' with the bound on hardrst_count taken strictly
SrcSendCapsDefaultStrict(c, evt) ==
    IF "EVENT_RX" \in evt
    THEN IF PACKET_IS_DATA_MSG(c.rec_head, DMT_REQUEST)
         THEN set_state(c, "policy_src_negotiate_cap")
         ELSE set_state(c, "policy_src_send_softrst")
    ELSE IF "EVENT_TIMER_STATE" \in evt
    THEN IF c.hardrst_count < N_HARDRESET_COUNT
         THEN set_state(c, "policy_src_send_hardrst")
         ELSE set_state(c, "disabled")
    ELSE IF "EVENT_TIMER_MUX" \in evt THEN NoResponse(c)
    ELSE c

\* `default:' of fusb_state_src_send_caps: the answer to the capabilities
SrcSendCapsDefault(c, evt) ==
    IF "EVENT_RX" \in evt
    THEN IF PACKET_IS_DATA_MSG(c.rec_head, DMT_REQUEST)
         THEN set_state(c, "policy_src_negotiate_cap")
         ELSE set_state(c, "policy_src_send_softrst")
    ELSE IF "EVENT_TIMER_STATE" \in evt
    THEN IF c.hardrst_count <= N_HARDRESET_COUNT
         THEN set_state(c, "policy_src_send_hardrst")
         ELSE set_state(c, "disabled")
    ELSE IF "EVENT_TIMER_MUX" \in evt THEN NoResponse(c)
    ELSE c

\* `case 1:' after policy_send_data has returned the chip `c'
SrcSendCapsSent(c, evt) ==
    IF c.tx_state = "tx_failed" THEN set_state(c, "policy_src_discovery")
    ELSE IF evt \cap FLAG_EVENT = {}
    THEN IF c.tx_state = "tx_success"
         THEN [c EXCEPT !.hardrst_count = 0, !.caps_counter = 0,
                        !.timer_state = "T_SENDER_RESPONSE",
                        !.timer_mux = T_DISABLED,
                        !.sub_state = @ + 1, !.is_pd_support = TRUE]
         ELSE c
    ELSE SrcSendCapsDefault(
             IF c.tx_state = "tx_success"
             THEN [c EXCEPT !.hardrst_count = 0, !.caps_counter = 0,
                            !.timer_state = "T_SENDER_RESPONSE",
                            !.timer_mux = T_DISABLED,
                            !.sub_state = @ + 1, !.is_pd_support = TRUE]
             ELSE c,
             evt)

fusb_state_src_send_caps(c, evt) ==
    IF c.sub_state = 0
    THEN SrcSendCapsSent(
             policy_send_data(
                 [set_mesg(c, DMT_SOURCECAPABILITIES, TRUE)
                     EXCEPT !.sub_state = 1, !.tx_state = "tx_idle"]),
             evt)
    ELSE IF c.sub_state = 1 THEN SrcSendCapsSent(policy_send_data(c), evt)
    ELSE SrcSendCapsDefault(c, evt)

\* object position of a Request data object: (rec_load[0] >> 28) & 0x07
RequestPosition(w) == Bits(Hi(w), 12, 3)

\* a bound that rejects the last advertised capability
SrcNegotiateCapStrict(c, evt) ==
    IF RequestPosition(c.rec_load[1]) >= c.n_caps_used
    THEN set_state(c, "policy_src_cap_response")
    ELSE set_state(c, "policy_src_transition_supply")

fusb_state_src_negotiate_cap(c, evt) ==
    IF RequestPosition(c.rec_load[1]) > c.n_caps_used
    THEN set_state(c, "policy_src_cap_response")
    ELSE set_state(c, "policy_src_transition_supply")

\* `case 1:' after policy_send_data: the Accept
SrcTransitionSupplyAccept(c) ==
    IF c.tx_state = "tx_success"
    THEN [c EXCEPT !.timer_state = "T_SRC_TRANSITION", !.sub_state = @ + 1]
    ELSE IF c.tx_state = "tx_failed"
    THEN set_state(c, "policy_src_send_softrst")
    ELSE c

\* `default:' after policy_send_data: the PS_RDY
SrcTransitionSupplyPsRdy(c) ==
    IF c.tx_state = "tx_success" THEN set_state(c, "policy_src_ready")
    ELSE IF c.tx_state = "tx_failed"
    THEN set_state(c, "policy_src_send_softrst")
    ELSE c

fusb_state_src_transition_supply(c, evt) ==
    IF c.sub_state = 0
    THEN SrcTransitionSupplyAccept(
             policy_send_data(
                 [set_mesg(c, CMT_ACCEPT, FALSE)
                     EXCEPT !.tx_state = "tx_idle", !.sub_state = @ + 1]))
    ELSE IF c.sub_state = 1
    THEN SrcTransitionSupplyAccept(policy_send_data(c))
    ELSE IF c.sub_state = 2
    THEN IF "EVENT_TIMER_STATE" \in evt
         THEN [set_mesg(platform_set_vbus_lvl_enable(
                            [c EXCEPT !.notify.is_pd_connected = TRUE],
                            TRUE),
                        CMT_PS_RDY, FALSE)
                  EXCEPT !.tx_state = "tx_idle", !.sub_state = @ + 1,
                         !.work_continue = @ \cup {"EVENT_WORK_CONTINUE"}]
         ELSE c
    ELSE SrcTransitionSupplyPsRdy(policy_send_data(c))

\* `default:' after policy_send_data: the Reject
SrcCapResponseSent(c) ==
    IF c.tx_state = "tx_success"
    THEN IF c.notify.is_pd_connected
         THEN set_state(c, "policy_src_ready")
         ELSE set_state(c, "policy_src_send_hardrst")
    ELSE IF c.tx_state = "tx_failed"
    THEN set_state(c, "policy_src_send_softrst")
    ELSE c

fusb_state_src_cap_response(c, evt) ==
    SrcCapResponseSent(
        policy_send_data(
            IF c.sub_state = 0
            THEN [set_mesg(c, CMT_REJECT, FALSE)
                     EXCEPT !.tx_state = "tx_idle", !.sub_state = @ + 1]
            ELSE c))

fusb_state_src_transition_default(c, evt) ==
    IF c.sub_state = 0
    THEN [platform_set_vbus_lvl_enable(
              [c EXCEPT !.notify.is_pd_connected = FALSE], FALSE)
              EXCEPT !.timer_state = "T_SRC_RECOVER", !.sub_state = @ + 1]
    ELSE IF "EVENT_TIMER_STATE" \in evt
    THEN set_state([platform_set_vbus_lvl_enable(c, TRUE)
                        EXCEPT !.timer_mux = "T_NO_RESPONSE"],
                   "policy_src_startup")
    ELSE c


-----------------------------------------------------------------------------
(* DisplayPort alternate mode: pin assignment and the Auto-VDM engine.     *)

PD_DP_PIN_CAPS(caps) ==
    IF Bit(Lo(caps), 6) = 1 THEN Hi(caps) % 64 ELSE Bits(Lo(caps), 8, 6)
PD_DP_SIGNAL_GEN2(caps) == Bit(Lo(caps), 3)
PD_VDO_DPSTS_MF_PREF(status) == Bit(status, 4)
GET_DP_STATUS(w) == Lo(w) % 512

MODE_DP_PIN_MF_MASK == MODE_DP_PIN_B + MODE_DP_PIN_D + MODE_DP_PIN_F
MODE_DP_PIN_BR2_MASK == MODE_DP_PIN_A + MODE_DP_PIN_B
MODE_DP_PIN_DP_MASK ==
    MODE_DP_PIN_C + MODE_DP_PIN_D + MODE_DP_PIN_E + MODE_DP_PIN_F

\* pin configs B/D/F go when multi-function is not preferred
PinMultiFunction(pins, status) ==
    IF PD_VDO_DPSTS_MF_PREF(status) = 0
    THEN AndNot6(pins, MODE_DP_PIN_MF_MASK, 0) ELSE pins

\* the configs of the signalling that is not in use go
PinSignalling(pins, caps) ==
    IF PD_DP_SIGNAL_GEN2(caps) = 1
    THEN AndNot6(pins, MODE_DP_PIN_DP_MASK, 0)
    ELSE AndNot6(pins, MODE_DP_PIN_BR2_MASK, 0)

\* C/D are preferred to E/F
PinPreferCD(pins) ==
    IF And6(pins, MODE_DP_PIN_C + MODE_DP_PIN_D) # 0
    THEN AndNot6(pins, MODE_DP_PIN_E + MODE_DP_PIN_F, 0) ELSE pins

\* a choice of the lowest config that is left
PinLowest(pins) ==
    IF pins = 0 THEN 0
    ELSE Pow2(CHOOSE n \in 0..5 :
                  Bit(pins, n) = 1 /\ \A m \in 0..(n - 1) : Bit(pins, m) = 0)

\* 1 << get_next_bit(&pin_caps), 0 for an empty set
PinHighest(pins) == IF pins = 0 THEN 0 ELSE Pow2(HighBit(pins, 5))

pd_dfp_dp_get_pin_assignment(caps, status) ==
    PinHighest(
        PinPreferCD(
            PinSignalling(PinMultiFunction(PD_DP_PIN_CAPS(caps), status),
                          caps)))

VdmHeader(c, cnt) ==
    Header(c.msg_id, c.notify.power_role, c.notify.data_role, cnt,
           DMT_VENDERDEFINED)

\* bits 15..0 of a structured VDM header without the object position
VdmLow(cmd, type) == 32768 + type * 64 + cmd

\* the DP configuration with the pin assignment `pin'
DpConfigMesg(c, low, pin) ==
    [c EXCEPT !.send_head = VdmHeader(c, 2),
              !.send_load[1] = W(65281, low + 256),
              !.notify.pin_assignment_def = pin,
              !.send_load[2] = W(0, pin * 256 + 4 + 2)]

set_vdm_mesg(c, cmd, type, mode) ==
    IF cmd \in {VDM_DISCOVERY_ID, VDM_DISCOVERY_SVIDS, VDM_ATTENTION}
    THEN [c EXCEPT !.send_head = VdmHeader(c, 1),
                   !.send_load[1] = W(65280, VdmLow(cmd, type))]
    ELSE IF cmd = VDM_DISCOVERY_MODES
    THEN [c EXCEPT !.send_head = VdmHeader(c, 1),
                   !.send_load[1] =
                       W(c.vdm_svid[(c.val_tmp \div 2) + 1],
                         VdmLow(cmd, type))]
    ELSE IF cmd = VDM_ENTER_MODE
    THEN [c EXCEPT !.send_head = VdmHeader(c, 1),
                   !.send_load[1] =
                       W(65281, VdmLow(cmd, type) + mode * 256)]
    ELSE IF cmd = VDM_EXIT_MODE
    THEN [c EXCEPT !.send_head = VdmHeader(c, 1),
                   !.send_load[1] = W(65281, VdmLow(cmd, type) + 15 * 256)]
    ELSE IF cmd = VDM_DP_STATUS_UPDATE
    THEN [c EXCEPT !.send_head = VdmHeader(c, 2),
                   !.send_load[1] = W(65281, VdmLow(cmd, type) + 256),
                   !.send_load[2] = W(0, 5)]
    ELSE IF cmd = VDM_DP_CONFIG
    THEN DpConfigMesg(c, VdmLow(cmd, type),
                      pd_dfp_dp_get_pin_assignment(c.notify.dp_caps,
                                                   c.notify.dp_status))
    ELSE [c EXCEPT !.send_head = VdmHeader(c, 0),
                   !.send_load[1] = W(0, VdmLow(cmd, type))]

\* the SVID loop of process_vdm_msg: 16-bit halves of rec_load[1..6] are
\* stored until the first zero; `k' counts halves, <<svid, num>> is the
\* result
RECURSIVE StoreSvids(_, _, _, _)
\* half `k' of the SVID list in rec_load[1..6]
SvidHalf(load, k) ==
    IF k % 2 = 0 THEN Hi(load[(k \div 2) + 2])
    ELSE Lo(load[(k \div 2) + 2])

StoreSvids(load, svid, num, k) ==
    IF k = 12 THEN <<svid, num>>
    ELSE IF SvidHalf(load, k) = 0 THEN <<svid, num>>
    ELSE StoreSvids(load, [svid EXCEPT ![k + 1] = SvidHalf(load, k)],
                    num + 1, k + 1)

SvidZero == [i \in 1..12 |-> 0]

\* the SVIDs `r' = <<vdm_svid, vdm_svid_num>> are stored
SvidsStored(c, r) == [c EXCEPT !.vdm_svid = r[1], !.vdm_svid_num = r[2]]

\* a Discover Modes ACK without pin configs fails the engine
ModesStoredStrict(c, tmp) ==
    IF Bits(Lo(tmp), 8, 6) = 0 /\ Hi(tmp) % 64 = 0
    THEN [c EXCEPT !.vdm_state = VDM_STATE_ERR]
    ELSE [c EXCEPT !.notify.dp_caps = tmp,
                   !.notify.pin_assignment_def = 0,
                   !.notify.pin_assignment_support = PD_DP_PIN_CAPS(tmp),
                   !.val_tmp = @ + (1 - (@ % 2))]

\* a Discover Modes ACK with the mode object `tmp'
ModesStored(c, tmp) ==
    IF Bits(Lo(tmp), 8, 6) = 0 /\ Hi(tmp) % 64 = 0
    THEN [c EXCEPT !.val_tmp = @ + (1 - (@ % 2))]
    ELSE [c EXCEPT !.notify.dp_caps = tmp,
                   !.notify.pin_assignment_def = 0,
                   !.notify.pin_assignment_support = PD_DP_PIN_CAPS(tmp),
                   !.val_tmp = @ + (1 - (@ % 2))]

\* process_vdm_msg for command `cmd' of type `type'
ProcessVdm(c, cmd, type) ==
    IF type = VDM_TYPE_INIT
    THEN IF cmd = VDM_ATTENTION
         THEN platform_fusb_notify(
                  [c EXCEPT !.notify.dp_status =
                                GET_DP_STATUS(c.rec_load[2]),
                            !.notify.attention = TRUE])
         ELSE c
    ELSE IF type = VDM_TYPE_ACK
    THEN IF cmd = VDM_DISCOVERY_ID
         THEN [c EXCEPT !.vdm_id = c.rec_load[2]]
         ELSE IF cmd = VDM_DISCOVERY_SVIDS
         THEN SvidsStored(c, StoreSvids(c.rec_load, c.vdm_svid,
                                        c.vdm_svid_num, 0))
         ELSE IF cmd = VDM_DISCOVERY_MODES
         THEN IF PD_HEADER_CNT(c.rec_head) > 1
              THEN ModesStored(c, c.rec_load[2])
              ELSE c
         ELSE IF cmd = VDM_ENTER_MODE THEN [c EXCEPT !.val_tmp = 1]
         ELSE IF cmd = VDM_DP_STATUS_UPDATE
         THEN [c EXCEPT !.notify.dp_status = GET_DP_STATUS(c.rec_load[2]),
                        !.val_tmp = 1]
         ELSE IF cmd = VDM_DP_CONFIG
         THEN [c EXCEPT !.val_tmp = 1, !.notify.is_enter_mode = TRUE]
         ELSE c
    ELSE IF type = VDM_TYPE_NACK
    THEN [c EXCEPT !.vdm_state = VDM_STATE_ERR]
    ELSE c

process_vdm_msg(c) ==
    IF GET_VDMHEAD_STRUCT_TYPE(c.rec_load[1]) = 0 THEN c
    ELSE ProcessVdm(c, GET_VDMHEAD_CMD(c.rec_load[1]),
                    GET_VDMHEAD_CMD_TYPE(c.rec_load[1]))

\* result of one vdm_send_* call: the chip and the return value
Ret(c, r) == [c |-> c, r |-> r]

\* `default:' of the vdm_send_* functions: `done' tells whether the awaited
\* reply has been processed
VdmSendReply(c, evt, done) ==
    IF done THEN Ret(c, "0")
    ELSE IF "EVENT_TIMER_STATE" \in evt
    THEN Ret([c EXCEPT !.vdm_state = VDM_STATE_ERR,
                       !.work_continue = @ \cup {"EVENT_WORK_CONTINUE"}],
             "ETIMEDOUT")
    ELSE Ret(c, "EINPROGRESS")

\* `case 1:' after policy_send_data has returned the chip `c'
VdmSendSent(c, evt, done) ==
    IF c.tx_state = "tx_failed"
    THEN Ret([c EXCEPT !.vdm_state = VDM_STATE_ERR], "EPIPE")
    ELSE IF c.tx_state = "tx_success"
    THEN VdmSendReply([c EXCEPT !.vdm_send_state = @ + 1,
                                !.timer_state = "T_SENDER_RESPONSE"],
                      evt, done)
    ELSE Ret(c, "EINPROGRESS")

\* cases 1 and default shared by the vdm_send_* functions; `c' is the chip
\* after case 0; with "0" the caller still has to take the reply
VdmSendWait(c, evt, done) ==
    IF c.vdm_send_state = 1 THEN VdmSendSent(policy_send_data(c), evt, done)
    ELSE VdmSendReply(c, evt, done)

\* the reply flagged in val_tmp is awaited
VdmSendWaitFlag(c, evt) == VdmSendWait(c, evt, c.val_tmp # 0)


\* the reply has been taken: vdm_send_state returns to 0
VdmSendDone(r) ==
    IF r.r = "0" THEN Ret([r.c EXCEPT !.vdm_send_state = 0], "0") ELSE r
\* the reply flag val_tmp is consumed as well
VdmSendDoneFlag(r) ==
    IF r.r = "0"
    THEN Ret([r.c EXCEPT !.val_tmp = 0, !.vdm_send_state = 0], "0")
    ELSE r

VdmSendWaitId(c, evt) == VdmSendWait(c, evt, c.vdm_id # W0)

vdm_send_discoveryid(c, evt) ==
    VdmSendDone(
        VdmSendWaitId(
            IF c.vdm_send_state = 0
            THEN [set_vdm_mesg(c, VDM_DISCOVERY_ID, VDM_TYPE_INIT, 0)
                     EXCEPT !.vdm_id = W0, !.tx_state = "tx_idle",
                            !.vdm_send_state = @ + 1]
            ELSE c,
            evt))

VdmSendWaitSvid(c, evt) == VdmSendWait(c, evt, c.vdm_svid_num # 0)

vdm_send_discoverysvid(c, evt) ==
    VdmSendDone(
        VdmSendWaitSvid(
            IF c.vdm_send_state = 0
            THEN [set_vdm_mesg(c, VDM_DISCOVERY_SVIDS, VDM_TYPE_INIT, 0)
                     EXCEPT !.vdm_svid = SvidZero, !.vdm_svid_num = 0,
                            !.tx_state = "tx_idle",
                            !.vdm_send_state = @ + 1]
            ELSE c,
            evt))

\* one more SVID's modes have been received: val_tmp counts SVIDs in bits
\* 7..1 and flags the reply in bit 0
VdmNextSvid(r) ==
    IF r.r = "0"
    THEN Ret([r.c EXCEPT !.val_tmp = (@ - (@ % 2)) + 2,
                         !.vdm_send_state = 0,
                         !.work_continue = @ \cup {"EVENT_WORK_CONTINUE"}],
             "EINPROGRESS")
    ELSE r

VdmSendWaitModes(c, evt) == VdmSendWait(c, evt, c.val_tmp % 2 = 1)

vdm_send_discoverymodes(c, evt) ==
    IF (c.val_tmp \div 2) # c.vdm_svid_num
    THEN VdmNextSvid(
             VdmSendWaitModes(
                 IF c.vdm_send_state = 0
                 THEN [set_vdm_mesg(c, VDM_DISCOVERY_MODES,
                                    VDM_TYPE_INIT, 0)
                          EXCEPT !.tx_state = "tx_idle",
                                 !.vdm_send_state = @ + 1]
                 ELSE c,
                 evt))
    ELSE Ret([c EXCEPT !.val_tmp = 0], "0")

vdm_send_entermode(c, evt) ==
    VdmSendDoneFlag(
        VdmSendWaitFlag(
            IF c.vdm_send_state = 0
            THEN [set_vdm_mesg(c, VDM_ENTER_MODE, VDM_TYPE_INIT, 1)
                     EXCEPT !.tx_state = "tx_idle",
                            !.vdm_send_state = @ + 1,
                            !.notify.is_enter_mode = FALSE]
            ELSE c,
            evt))

vdm_send_getdpstatus(c, evt) ==
    VdmSendDoneFlag(
        VdmSendWaitFlag(
            IF c.vdm_send_state = 0
            THEN [set_vdm_mesg(c, VDM_DP_STATUS_UPDATE, VDM_TYPE_INIT, 1)
                     EXCEPT !.tx_state = "tx_idle",
                            !.vdm_send_state = @ + 1]
            ELSE c,
            evt))

vdm_send_dpconfig(c, evt) ==
    VdmSendDoneFlag(
        VdmSendWaitFlag(
            IF c.vdm_send_state = 0
            THEN [set_vdm_mesg(c, VDM_DP_CONFIG, VDM_TYPE_INIT, 0)
                     EXCEPT !.tx_state = "tx_idle",
                            !.vdm_send_state = @ + 1]
            ELSE c,
            evt))

\* an engine that answers a failed step with a soft reset
AutoVdmSoftReset(r) ==
    IF r.r = "0"
    THEN [r.c EXCEPT !.vdm_state = @ + 1,
                     !.work_continue = @ \cup {"EVENT_WORK_CONTINUE"}]
    ELSE IF r.r # "EINPROGRESS"
    THEN set_state([r.c EXCEPT !.vdm_state = VDM_STATE_ERR],
                   IF r.c.notify.power_role # 0
                   THEN "policy_src_send_softrst"
                   ELSE "policy_snk_send_softrst")
    ELSE r.c

\* `conditions' of one step, applied to the engine state
AUTO_VDM_HANDLE(r) ==
    IF r.r = "0"
    THEN [r.c EXCEPT !.vdm_state = @ + 1,
                     !.work_continue = @ \cup {"EVENT_WORK_CONTINUE"}]
    ELSE IF r.r # "EINPROGRESS"
    THEN [r.c EXCEPT !.vdm_state = VDM_STATE_ERR]
    ELSE r.c

auto_vdm_machine(c, evt) ==
    IF c.vdm_state = VDM_STATE_DISCOVERY_ID
    THEN AUTO_VDM_HANDLE(vdm_send_discoveryid(c, evt))
    ELSE IF c.vdm_state = VDM_STATE_DISCOVERY_SVID
    THEN AUTO_VDM_HANDLE(vdm_send_discoverysvid(c, evt))
    ELSE IF c.vdm_state = VDM_STATE_DISCOVERY_MODES
    THEN AUTO_VDM_HANDLE(vdm_send_discoverymodes(c, evt))
    ELSE IF c.vdm_state = VDM_STATE_ENTER_MODE
    THEN AUTO_VDM_HANDLE(vdm_send_entermode(c, evt))
    ELSE IF c.vdm_state = VDM_STATE_UPDATE_STATUS
    THEN AUTO_VDM_HANDLE(vdm_send_getdpstatus(c, evt))
    ELSE IF c.vdm_state = VDM_STATE_DP_CONFIG
    THEN AUTO_VDM_HANDLE(vdm_send_dpconfig(c, evt))
    ELSE IF c.vdm_state = VDM_STATE_NOTIFY
    THEN [platform_fusb_notify(c) EXCEPT !.vdm_state = VDM_STATE_READY]
    ELSE c

\* an engine that also runs while the port is UFP
VdmIsActiveAnyRole(c) == c.vdm_state < VDM_STATE_READY

VDM_IS_ACTIVE(c) ==
    c.notify.data_role # 0 /\ c.vdm_state < VDM_STATE_READY

-----------------------------------------------------------------------------
(* Ready state of the source and the swaps the partner can request.        *)

fusb_state_vcs_ufp_evaluate_swap(c, evt) ==
    IF c.vconn_supported THEN set_state(c, "policy_vcs_ufp_accept")
    ELSE set_state(c, "policy_vcs_ufp_reject")

fusb_state_swap_msg_process(c, evt) ==
    IF "EVENT_RX" \notin evt THEN c
    ELSE IF PACKET_IS_CONTROL_MSG(c.rec_head, CMT_PR_SWAP)
    THEN set_state(c, "policy_src_prs_evaluate")
    ELSE IF PACKET_IS_CONTROL_MSG(c.rec_head, CMT_VCONN_SWAP)
    THEN IF c.notify.data_role # 0 THEN set_state(c, c.conn_state)
         ELSE set_state(c, "policy_vcs_ufp_evaluate_swap")
    ELSE IF PACKET_IS_CONTROL_MSG(c.rec_head, CMT_DR_SWAP)
    THEN IF c.notify.data_role # 0
         THEN set_state(c, "policy_drs_dfp_evaluate")
         ELSE set_state(c, "policy_drs_ufp_evaluate")
    ELSE c

\* what both ready states do with a received message
ReadyRx(c, evt) ==
    IF "EVENT_RX" \notin evt THEN c
    ELSE IF PACKET_IS_DATA_MSG(c.rec_head, DMT_VENDERDEFINED)
    THEN [process_vdm_msg(c) EXCEPT
             !.work_continue = @ \cup {"EVENT_WORK_CONTINUE"},
             !.timer_state = T_DISABLED]
    ELSE IF ~VDM_IS_ACTIVE(c) THEN fusb_state_swap_msg_process(c, evt)
    ELSE c

\* the rest of fusb_state_src_ready once the received message is handled
SrcReadyNext(c, evt) ==
    IF c.partner_cap[1] = W0 THEN set_state(c, "policy_src_get_sink_caps")
    ELSE IF VDM_IS_ACTIVE(c) THEN auto_vdm_machine(c, evt)
    ELSE c

fusb_state_src_ready(c, evt) == SrcReadyNext(ReadyRx(c, evt), evt)

fusb_state_prs_evaluate(c, evt) ==
    IF c.role = "ROLE_MODE_DRP" THEN set_state(c, "policy_src_prs_accept")
    ELSE set_state(c, "policy_src_prs_reject")

\* `case 1:' after policy_send_data has returned the chip `c'
SimpleMsgSent(c, state_success, state_failed) ==
    IF c.tx_state = "tx_success" THEN set_state(c, state_success)
    ELSE IF c.tx_state = "tx_failed" THEN set_state(c, state_failed)
    ELSE c

fusb_state_send_simple_msg(c, evt, cmd, is_DMT, state_success,
                           state_failed) ==
    IF c.sub_state = 0
    THEN SimpleMsgSent(
             policy_send_data(
                 [set_mesg(c, cmd, is_DMT)
                     EXCEPT !.tx_state = "tx_idle", !.sub_state = @ + 1]),
             state_success, state_failed)
    ELSE IF c.sub_state = 1
    THEN SimpleMsgSent(policy_send_data(c), state_success, state_failed)
    ELSE c

\* the ready / soft-reset state of the port's current power role
ReadyOf(c) ==
    IF c.notify.power_role # 0 THEN "policy_src_ready"
    ELSE "policy_snk_ready"
SendSoftrstOf(c) ==
    IF c.notify.power_role # 0 THEN "policy_src_send_softrst"
    ELSE "policy_snk_send_softrst"

fusb_state_prs_reject(c, evt) ==
    fusb_state_send_simple_msg(c, evt, CMT_REJECT, FALSE, ReadyOf(c),
                               SendSoftrstOf(c))

fusb_state_prs_accept(c, evt) ==
    fusb_state_send_simple_msg(c, evt, CMT_ACCEPT, FALSE,
        IF c.notify.power_role # 0 THEN "policy_src_prs_transition_to_off"
        ELSE "policy_snk_prs_transition_to_off",
        SendSoftrstOf(c))

fusb_state_vcs_ufp_accept(c, evt) ==
    fusb_state_send_simple_msg(c, evt, CMT_ACCEPT, FALSE,
        IF c.vconn_enabled THEN "policy_vcs_ufp_wait_for_dfp_vconn"
        ELSE "policy_vcs_ufp_turn_on_vconn",
        SendSoftrstOf(c))

fusb_state_vcs_set_vconn(c, evt, on) ==
    IF on
    THEN set_state(tcpm_set_vconn(c, TRUE),
                   IF c.notify.data_role # 0
                   THEN "policy_vcs_dfp_send_ps_rdy"
                   ELSE "policy_vcs_ufp_send_ps_rdy")
    ELSE set_state(tcpm_set_vconn(c, FALSE), ReadyOf(c))

fusb_state_vcs_send_ps_rdy(c, evt) ==
    fusb_state_send_simple_msg(c, evt, CMT_PS_RDY, FALSE, ReadyOf(c),
                               SendSoftrstOf(c))

\* `case 1:' of fusb_state_vcs_wait_for_vconn
VconnWait(c, evt) ==
    IF "EVENT_RX" \in evt
    THEN IF PACKET_IS_CONTROL_MSG(c.rec_head, CMT_PS_RDY)
         THEN set_state(c, IF c.notify.data_role # 0
                           THEN "policy_vcs_dfp_turn_off_vconn"
                           ELSE "policy_vcs_ufp_turn_off_vconn")
         ELSE c
    ELSE IF "EVENT_TIMER_STATE" \in evt
    THEN set_state(c, IF c.notify.power_role # 0
                      THEN "policy_src_send_hardrst"
                      ELSE "policy_snk_send_hardrst")
    ELSE c

fusb_state_vcs_wait_for_vconn(c, evt) ==
    IF c.sub_state = 0
    THEN VconnWait([c EXCEPT !.timer_state = "T_PD_VCONN_SRC_ON",
                             !.sub_state = @ + 1],
                   evt)
    ELSE IF c.sub_state = 1 THEN VconnWait(c, evt)
    ELSE c


\* VBUS is off and the port is a sink from now on
SrcPrsOff(c) ==
    IF c.role = "ROLE_MODE_DRP"
    THEN set_state(c, "policy_src_prs_assert_rd")
    ELSE set_state(c, "policy_src_prs_source_off")

fusb_state_src_prs_transition_to_off(c, evt) ==
    IF c.sub_state = 0
    THEN [c EXCEPT !.timer_state = "T_SRC_TRANSITION", !.sub_state = @ + 1]
    ELSE IF c.sub_state = 1 /\ "EVENT_TIMER_STATE" \in evt
    THEN SrcPrsOff([platform_set_vbus_lvl_enable(c, FALSE)
                       EXCEPT !.notify.power_role = POWER_ROLE_SINK])
    ELSE c

fusb_state_src_prs_assert_rd(c, evt) ==
    set_state(tcpm_set_cc_pull_mode(c, "CC_PULL_DOWN"),
              "policy_src_prs_source_off")

\* case 2 of fusb_state_src_prs_source_off
SourceOffWait(c, evt) ==
    IF "EVENT_RX" \in evt
    THEN IF PACKET_IS_CONTROL_MSG(c.rec_head, CMT_PS_RDY)
         THEN set_state(
                  tcpm_set_rx_enable(
                      tcpm_set_polarity(
                          [c EXCEPT !.timer_state = T_DISABLED,
                                    !.notify.is_pd_connected = FALSE,
                                    !.cc_state.role = "UFP"],
                          c.cc_polarity),
                      TRUE),
                  "policy_snk_discovery")
         ELSE c
    ELSE IF "EVENT_TIMER_STATE" \in evt
    THEN set_state([c EXCEPT !.notify.power_role = POWER_ROLE_SOURCE],
                   "policy_src_send_hardrst")
    ELSE c

\* the result of the transmission in `case 1:'
SourceOffResult(c) ==
    IF c.tx_state = "tx_success"
    THEN [c EXCEPT !.timer_state = "T_PD_SOURCE_ON", !.sub_state = @ + 1]
    ELSE IF c.tx_state = "tx_failed"
    THEN set_state([c EXCEPT !.notify.power_role = POWER_ROLE_SOURCE],
                   "policy_src_send_hardrst")
    ELSE c

\* `if (chip->sub_state != 3) break;' at the end of `case 1:'
SourceOffNext(c, evt) ==
    IF c.sub_state # 3 THEN c ELSE SourceOffWait(c, evt)

fusb_state_src_prs_source_off(c, evt) ==
    IF c.sub_state = 0
    THEN SourceOffNext(
             SourceOffResult(
                 policy_send_data(
                     [set_mesg(c, CMT_PS_RDY, FALSE)
                         EXCEPT !.tx_state = "tx_idle",
                                !.sub_state = @ + 1])),
             evt)
    ELSE IF c.sub_state = 1
    THEN SourceOffNext(SourceOffResult(policy_send_data(c)), evt)
    ELSE IF c.sub_state = 2 THEN SourceOffWait(c, evt)
    ELSE c

fusb_state_drs_evaluate(c, evt) ==
    IF c.data_role_swap
    THEN set_state(c, IF c.notify.data_role # 0
                      THEN "policy_drs_dfp_reject"
                      ELSE "policy_drs_ufp_accept")
    ELSE set_state(c, IF c.notify.data_role # 0
                      THEN "policy_drs_dfp_reject"
                      ELSE "policy_drs_ufp_reject")

fusb_state_drs_send_accept(c, evt) ==
    fusb_state_send_simple_msg(c, evt, CMT_ACCEPT, FALSE,
        IF c.notify.power_role # 0 THEN "policy_drs_dfp_change"
        ELSE "policy_drs_ufp_change",
        "error_recovery")

fusb_state_drs_role_change(c, evt) ==
    set_state([c EXCEPT !.notify.data_role =
                            IF @ # 0 THEN DATA_ROLE_UFP ELSE DATA_ROLE_DFP],
              ReadyOf(c))

\* the partner's sink capabilities could not be had
NoSinkCap(c) ==
    set_state([c EXCEPT !.partner_cap[1] = W(65535, 65535)],
              "policy_src_ready")

\* `default:' of fusb_state_src_get_sink_cap: the partner's answer
GetSinkCapReply(c, evt) ==
    IF "EVENT_RX" \in evt
    THEN IF PACKET_IS_DATA_MSG(c.rec_head, DMT_SINKCAPABILITIES)
         THEN set_state(
                  [c EXCEPT !.partner_cap = [i \in 1..7 |->
                       IF i <= PD_HEADER_CNT(c.rec_head)
                       THEN c.rec_load[i] ELSE @[i]]],
                  "policy_src_ready")
         ELSE NoSinkCap(c)
    ELSE IF "EVENT_TIMER_STATE" \in evt THEN NoSinkCap(c)
    ELSE c

\* the result of the transmission in `case 1:'
GetSinkCapResult(c) ==
    IF c.tx_state = "tx_success"
    THEN [c EXCEPT !.timer_state = "T_SENDER_RESPONSE", !.sub_state = @ + 1]
    ELSE IF c.tx_state = "tx_failed"
    THEN set_state(c, "policy_src_send_softrst")
    ELSE c

\* `case 1:' after policy_send_data has returned the chip `c'
GetSinkCapSent(c, evt) ==
    IF evt \cap FLAG_EVENT = {} THEN GetSinkCapResult(c)
    ELSE GetSinkCapReply(GetSinkCapResult(c), evt)

fusb_state_src_get_sink_cap(c, evt) ==
    IF c.sub_state = 0
    THEN GetSinkCapSent(
             policy_send_data(
                 [set_mesg(c, CMT_GETSINKCAP, FALSE)
                     EXCEPT !.tx_state = "tx_idle", !.sub_state = @ + 1]),
             evt)
    ELSE IF c.sub_state = 1 THEN GetSinkCapSent(policy_send_data(c), evt)
    ELSE GetSinkCapReply(c, evt)

\* fusb_state_src_send_hardreset and fusb_state_snk_send_hardreset differ
\* in the state they continue with
\* after policy_send_hardrst has returned the chip `c'
HardresetSent(c, next) ==
    IF c.tx_state = "tx_success"
    THEN set_state([c EXCEPT !.hardrst_count = @ + 1], next)
    ELSE IF c.tx_state = "tx_failed" THEN set_state(c, "error_recovery")
    ELSE c

SendHardreset(c, evt, next) ==
    HardresetSent(
        policy_send_hardrst(
            IF c.sub_state = 0
            THEN [c EXCEPT !.tx_state = "tx_idle", !.sub_state = @ + 1]
            ELSE c,
            evt),
        next)

fusb_state_src_send_hardreset(c, evt) ==
    SendHardreset(c, evt, "policy_src_transition_default")

\* after policy_send_data has returned the chip `c': the Accept
SrcSoftresetSent(c) ==
    IF c.tx_state = "tx_success"
    THEN set_state(fusb_soft_reset_parameter(c), "policy_src_send_caps")
    ELSE IF c.tx_state = "tx_failed"
    THEN set_state(c, "policy_src_send_hardrst")
    ELSE c

fusb_state_src_softreset(c) ==
    SrcSoftresetSent(
        policy_send_data(
            IF c.sub_state = 0
            THEN [set_mesg(c, CMT_ACCEPT, FALSE)
                     EXCEPT !.tx_state = "tx_idle", !.sub_state = @ + 1]
            ELSE c))

\* `default:' of fusb_state_src_send_softreset: the partner's answer
SrcSendSoftresetReply(c, evt) ==
    IF "EVENT_RX" \in evt
    THEN IF PACKET_IS_CONTROL_MSG(c.rec_head, CMT_ACCEPT)
         THEN set_state(fusb_soft_reset_parameter(c),
                        "policy_src_send_caps")
         ELSE c
    ELSE IF "EVENT_TIMER_STATE" \in evt
    THEN set_state(c, "policy_src_send_hardrst")
    ELSE c

\* the result of the transmission in `case 1:'
SrcSendSoftresetResult(c) ==
    IF c.tx_state = "tx_success"
    THEN [c EXCEPT !.timer_state = "T_SENDER_RESPONSE", !.sub_state = @ + 1]
    ELSE IF c.tx_state = "tx_failed"
    THEN set_state(c, "policy_src_send_hardrst")
    ELSE c

\* `case 1:' after policy_send_data has returned the chip `c'
SrcSendSoftresetSent(c, evt) ==
    IF evt \cap FLAG_EVENT = {} THEN SrcSendSoftresetResult(c)
    ELSE SrcSendSoftresetReply(SrcSendSoftresetResult(c), evt)

fusb_state_src_send_softreset(c, evt) ==
    IF c.sub_state = 0
    THEN SrcSendSoftresetSent(
             policy_send_data(
                 [set_mesg(c, CMT_SOFTRESET, FALSE)
                     EXCEPT !.tx_state = "tx_idle", !.sub_state = @ + 1]),
             evt)
    ELSE IF c.sub_state = 1
    THEN SrcSendSoftresetSent(policy_send_data(c), evt)
    ELSE SrcSendSoftresetReply(c, evt)


-----------------------------------------------------------------------------
(* Sink policy engine.                                                     *)

fusb_state_snk_startup(c, evt) ==
    platform_fusb_notify(
        set_state(
            tcpm_set_rx_enable(
                tcpm_set_polarity(
                    [fusb_soft_reset_parameter(
                         [c EXCEPT !.notify.is_pd_connected = FALSE])
                        EXCEPT !.partner_cap = Pad7(<<>>)],
                    c.cc_polarity),
                TRUE),
            "policy_snk_discovery"))

fusb_state_snk_discovery(c, evt) ==
    [set_state(c, "policy_snk_wait_caps")
         EXCEPT !.timer_state = "T_TYPEC_SINK_WAIT_CAP"]

\* the sink gives up waiting for capabilities
SinkGiveUp(c) ==
    IF c.is_pd_support THEN set_state(c, "error_recovery")
    ELSE set_state(c, "disabled")

fusb_state_snk_wait_caps(c, evt) ==
    IF "EVENT_RX" \in evt
    THEN IF PACKET_IS_DATA_MSG(c.rec_head, DMT_SOURCECAPABILITIES)
         THEN set_state([c EXCEPT !.is_pd_support = TRUE,
                                  !.timer_mux = T_DISABLED],
                        "policy_snk_evaluate_caps")
         ELSE c
    ELSE IF "EVENT_TIMER_STATE" \in evt
    THEN IF c.hardrst_count <= N_HARDRESET_COUNT
         THEN IF c.vbus_begin
              THEN set_state([c EXCEPT !.vbus_begin = FALSE],
                             "policy_snk_send_softrst")
              ELSE set_state(c, "policy_snk_send_hardrst")
         ELSE SinkGiveUp(c)
    ELSE IF "EVENT_TIMER_MUX" \in evt
            /\ c.hardrst_count > N_HARDRESET_COUNT
    THEN SinkGiveUp(c)
    ELSE c

\* the capability loop of fusb_state_snk_evaluate_caps: the last object
\* among the first `n' that offers at most 100 * 50 mV
RECURSIVE EvaluatePos(_, _)
EvaluatePos(load, n) ==
    IF n = 0 THEN 0
    ELSE IF \/ (CAP_POWER_TYPE(load[n]) = 0
                /\ CAP_FPDO_VOLTAGE(load[n]) <= 100)
            \/ (CAP_POWER_TYPE(load[n]) = 1
                /\ CAP_VPDO_VOLTAGE(load[n]) <= 100)
    THEN n
    ELSE EvaluatePos(load, n - 1)

\* the object position `pos' has been chosen
SnkEvaluated(c, pos) ==
    IF pos = 0 \/ pos > 7
    THEN set_state([c EXCEPT !.hardrst_count = 0, !.pos_power = 0],
                   "policy_snk_wait_caps")
    ELSE set_state([c EXCEPT !.hardrst_count = 0, !.pos_power = pos],
                   "policy_snk_select_cap")

fusb_state_snk_evaluate_caps(c, evt) ==
    SnkEvaluated(c, EvaluatePos(c.rec_load, PD_HEADER_CNT(c.rec_head)))

\* `default:' of fusb_state_snk_select_cap: the answer to the Request
SnkSelectCapReply(c, evt) ==
    IF "EVENT_RX" \in evt
    THEN IF PD_HEADER_CNT(c.rec_head) # 0 THEN c
         ELSE IF PD_HEADER_TYPE(c.rec_head) = CMT_ACCEPT
         THEN [set_state(c, "policy_snk_transition_sink")
                  EXCEPT !.timer_state = "T_PS_TRANSITION"]
         ELSE IF PD_HEADER_TYPE(c.rec_head) \in {CMT_WAIT, CMT_REJECT}
         THEN IF c.notify.is_pd_connected
              THEN set_state(c, "policy_snk_ready")
              ELSE [set_state(c, "policy_snk_wait_caps")
                       EXCEPT !.hardrst_count = N_HARDRESET_COUNT + 1]
         ELSE c
    ELSE IF "EVENT_TIMER_STATE" \in evt
    THEN set_state(c, "policy_snk_send_hardrst")
    ELSE c

\* a confirmed Request starts the response timer
SnkSelectCapResult(c) ==
    IF c.tx_state = "tx_success"
    THEN [c EXCEPT !.timer_state = "T_SENDER_RESPONSE", !.sub_state = @ + 1]
    ELSE c

\* `case 1:' after policy_send_data has returned the chip `c'
SnkSelectCapSent(c, evt) ==
    IF c.tx_state = "tx_failed" THEN set_state(c, "policy_snk_discovery")
    ELSE IF evt \cap FLAG_EVENT = {} THEN SnkSelectCapResult(c)
    ELSE SnkSelectCapReply(SnkSelectCapResult(c), evt)

fusb_state_snk_select_cap(c, evt, ub) ==
    IF c.sub_state = 0
    THEN SnkSelectCapSent(
             policy_send_data(
                 [set_mesg_ub(c, DMT_REQUEST, TRUE, ub)
                     EXCEPT !.sub_state = 1, !.tx_state = "tx_idle"]),
             evt)
    ELSE IF c.sub_state = 1 THEN SnkSelectCapSent(policy_send_data(c), evt)
    ELSE SnkSelectCapReply(c, evt)

\* a sink that takes PS_RDY for nothing
SnkTransitionSinkDeaf(c, evt) ==
    IF "EVENT_RX" \in evt
    THEN IF PACKET_IS_DATA_MSG(c.rec_head, DMT_SOURCECAPABILITIES)
         THEN set_state(c, "policy_snk_evaluate_caps")
         ELSE c
    ELSE IF "EVENT_TIMER_STATE" \in evt
    THEN set_state(c, "policy_snk_send_hardrst")
    ELSE c

fusb_state_snk_transition_sink(c, evt) ==
    IF "EVENT_RX" \in evt
    THEN IF PACKET_IS_CONTROL_MSG(c.rec_head, CMT_PS_RDY)
         THEN set_state([c EXCEPT !.notify.is_pd_connected = TRUE],
                        "policy_snk_ready")
         ELSE IF PACKET_IS_DATA_MSG(c.rec_head, DMT_SOURCECAPABILITIES)
         THEN set_state(c, "policy_snk_evaluate_caps")
         ELSE c
    ELSE IF "EVENT_TIMER_STATE" \in evt
    THEN set_state(c, "policy_snk_send_hardrst")
    ELSE c

\* `case 1:' and `default:' of fusb_state_snk_transition_default
SnkTransitionDefaultWait(c, evt, env) ==
    IF c.sub_state = 1
    THEN IF ~tcpm_check_vbus(env)
         THEN [c EXCEPT !.sub_state = @ + 1,
                        !.timer_state = "T_SRC_RECOVER_MAX+T_SRC_TURN_ON"]
         ELSE IF "EVENT_TIMER_STATE" \in evt
         THEN set_state(c, "policy_snk_startup")
         ELSE c
    ELSE IF tcpm_check_vbus(env)
    THEN set_state([c EXCEPT !.timer_state = T_DISABLED],
                   "policy_snk_startup")
    ELSE IF "EVENT_TIMER_STATE" \in evt
    THEN set_state(c, "policy_snk_startup")
    ELSE c

fusb_state_snk_transition_default(c, evt, env) ==
    SnkTransitionDefaultWait(
        IF c.sub_state = 0
        THEN [c EXCEPT !.notify.is_pd_connected = FALSE,
                       !.timer_mux = "T_NO_RESPONSE",
                       !.timer_state = "T_PS_HARD_RESET_MAX+T_SAFE_0V",
                       !.sub_state = @ + 1]
        ELSE c,
        evt, env)

\* the Auto-VDM engine runs while it is active
SnkReadyVdm(c, evt) ==
    IF VDM_IS_ACTIVE(c) THEN auto_vdm_machine(c, evt) ELSE c

fusb_state_snk_ready(c, evt) ==
    platform_fusb_notify(
        fusb_state_swap_msg_process(SnkReadyVdm(ReadyRx(c, evt), evt),
                                    evt))

fusb_state_snk_send_hardreset(c, evt) ==
    SendHardreset(c, evt, "policy_snk_transition_default")

\* case 2 of fusb_state_send_swap: the partner has accepted the swap `cmd'
SwapAccepted(c, cmd) ==
    IF cmd = CMT_VCONN_SWAP
    THEN set_state(c, IF c.vconn_enabled
                      THEN "policy_vcs_dfp_wait_for_ufp_vconn"
                      ELSE "policy_vcs_dfp_turn_on_vconn")
    ELSE IF cmd = CMT_PR_SWAP
    THEN [set_state(c, IF c.notify.power_role # 0
                       THEN "policy_src_prs_transition_to_off"
                       ELSE "policy_snk_prs_transition_to_off")
             EXCEPT !.notify.power_role = POWER_ROLE_SOURCE]
    ELSE IF cmd = CMT_DR_SWAP
    THEN set_state(c, IF c.notify.data_role # 0
                      THEN "policy_drs_dfp_change"
                      ELSE "policy_drs_ufp_change")
    ELSE c

SendSwapWait(c, evt, cmd) ==
    IF "EVENT_RX" \in evt
    THEN IF PACKET_IS_CONTROL_MSG(c.rec_head, CMT_ACCEPT)
         THEN SwapAccepted([c EXCEPT !.timer_state = T_DISABLED], cmd)
         ELSE IF PACKET_IS_CONTROL_MSG(c.rec_head, CMT_REJECT)
                 \/ PACKET_IS_CONTROL_MSG(c.rec_head, CMT_WAIT)
         THEN set_state([c EXCEPT !.timer_state = T_DISABLED], ReadyOf(c))
         ELSE c
    ELSE IF "EVENT_TIMER_STATE" \in evt THEN set_state(c, ReadyOf(c))
    ELSE c

\* `case 1:' after policy_send_data has returned the chip `c'
SendSwapSent(c, cmd) ==
    IF c.tx_state = "tx_success"
    THEN [c EXCEPT !.timer_state = "T_SENDER_RESPONSE", !.sub_state = @ + 1]
    ELSE IF c.tx_state = "tx_failed"
    THEN IF cmd = CMT_DR_SWAP THEN set_state(c, "error_recovery")
         ELSE set_state(c, SendSoftrstOf(c))
    ELSE c

fusb_state_send_swap(c, evt, cmd) ==
    IF c.sub_state = 0
    THEN SendSwapSent(
             policy_send_data(
                 [set_mesg(c, cmd, FALSE)
                     EXCEPT !.sub_state = 1, !.tx_state = "tx_idle"]),
             cmd)
    ELSE IF c.sub_state = 1 THEN SendSwapSent(policy_send_data(c), cmd)
    ELSE IF c.sub_state = 2 THEN SendSwapWait(c, evt, cmd)
    ELSE c

\* `case 1:' of fusb_state_snk_prs_transition_to_off
SnkPrsOffWait(c, evt) ==
    IF "EVENT_RX" \in evt
    THEN IF PACKET_IS_CONTROL_MSG(c.rec_head, CMT_PS_RDY)
         THEN IF c.role = "ROLE_MODE_DRP"
              THEN set_state(c, "policy_snk_prs_assert_rp")
              ELSE set_state(c, "policy_snk_prs_source_on")
         ELSE c
    ELSE IF "EVENT_TIMER_STATE" \in evt
    THEN set_state([c EXCEPT !.notify.power_role = POWER_ROLE_SINK],
                   "policy_snk_send_hardrst")
    ELSE c

fusb_state_snk_prs_transition_to_off(c, evt) ==
    IF c.sub_state = 0
    THEN SnkPrsOffWait([c EXCEPT !.timer_state = "T_PD_SOURCE_OFF",
                                 !.sub_state = @ + 1],
                       evt)
    ELSE IF c.sub_state = 1 THEN SnkPrsOffWait(c, evt)
    ELSE c

fusb_state_snk_prs_assert_rp(c, evt) ==
    set_state(tcpm_set_cc_pull_mode(c, "CC_PULL_UP"),
              "policy_snk_prs_source_on")

\* `case 2:' after policy_send_data has returned the chip `c'
SnkSourceOnSent(c) ==
    IF c.tx_state = "tx_success"
    THEN [c EXCEPT !.timer_state = "T_PD_SWAP_SOURCE_START",
                   !.sub_state = @ + 1]
    ELSE IF c.tx_state = "tx_failed"
    THEN set_state([c EXCEPT !.notify.power_role = POWER_ROLE_SINK],
                   "policy_snk_send_hardrst")
    ELSE c

fusb_state_snk_prs_source_on(c, evt) ==
    IF c.sub_state = 0
    THEN [platform_set_vbus_lvl_enable(c, TRUE)
              EXCEPT !.sub_state = @ + 1,
                     !.work_continue = @ \cup {"EVENT_WORK_CONTINUE"}]
    ELSE IF c.sub_state = 1
    THEN SnkSourceOnSent(
             policy_send_data(
                 [set_mesg(c, CMT_PS_RDY, FALSE)
                     EXCEPT !.tx_state = "tx_idle", !.sub_state = @ + 1]))
    ELSE IF c.sub_state = 2 THEN SnkSourceOnSent(policy_send_data(c))
    ELSE IF c.sub_state = 3 /\ "EVENT_TIMER_STATE" \in evt
    THEN set_state([c EXCEPT !.cc_state.role = "DFP",
                             !.mask_comp_chng = FALSE],
                   "policy_src_send_caps")
    ELSE c

\* after a soft reset the sink waits for capabilities again
SinkRestart(c) ==
    set_state([fusb_soft_reset_parameter(c)
                   EXCEPT !.timer_state = "T_TYPEC_SINK_WAIT_CAP"],
              "policy_snk_wait_caps")

\* after policy_send_data has returned the chip `c': the Accept
SnkSoftresetSent(c) ==
    IF c.tx_state = "tx_success" THEN SinkRestart(c)
    ELSE IF c.tx_state = "tx_failed"
    THEN set_state(c, "policy_snk_send_hardrst")
    ELSE c

fusb_state_snk_softreset(c) ==
    SnkSoftresetSent(
        policy_send_data(
            IF c.sub_state = 0
            THEN [set_mesg(c, CMT_ACCEPT, FALSE)
                     EXCEPT !.tx_state = "tx_idle", !.sub_state = @ + 1]
            ELSE c))

\* `default:' of fusb_state_snk_send_softreset: the partner's answer
SnkSendSoftresetReply(c, evt) ==
    IF "EVENT_RX" \in evt
    THEN IF PD_HEADER_CNT(c.rec_head) = 0
            /\ PD_HEADER_TYPE(c.rec_head) = CMT_ACCEPT
         THEN SinkRestart(c)
         ELSE c
    ELSE IF "EVENT_TIMER_STATE" \in evt
    THEN set_state(c, "policy_snk_send_hardrst")
    ELSE c

\* the result of the transmission in `case 1:'
SnkSendSoftresetResult(c) ==
    IF c.tx_state = "tx_success"
    THEN [c EXCEPT !.timer_state = "T_SENDER_RESPONSE", !.sub_state = @ + 1]
    ELSE IF c.tx_state = "tx_failed"
    THEN set_state(c, "policy_snk_send_hardrst")
    ELSE c

\* `case 1:' after policy_send_data has returned the chip `c'
SnkSendSoftresetSent(c, evt) ==
    IF evt \cap FLAG_EVENT = {} THEN SnkSendSoftresetResult(c)
    ELSE SnkSendSoftresetReply(SnkSendSoftresetResult(c), evt)

fusb_state_snk_send_softreset(c, evt) ==
    IF c.sub_state = 0
    THEN SnkSendSoftresetSent(
             policy_send_data(
                 [set_mesg(c, CMT_SOFTRESET, FALSE)
                     EXCEPT !.tx_state = "tx_idle", !.sub_state = @ + 1]),
             evt)
    ELSE IF c.sub_state = 1
    THEN SnkSendSoftresetSent(policy_send_data(c), evt)
    ELSE SnkSendSoftresetReply(c, evt)


-----------------------------------------------------------------------------
(* One tick of the worker: state_machine_typec.                            *)

\* an accessory is gone when either CC pin no longer shows Ra
DetachAcc(c, cc) ==
    IF cc[1] # TYPEC_CC_VOLT_RA \/ cc[2] # TYPEC_CC_VOLT_RA
    THEN set_state_unattached(c) ELSE c

\* a sink is gone when the connected CC pin is open
DetachCc(c, cc) ==
    IF (IF CC_STATE_TOGSS_CC2(c) THEN cc[2] ELSE cc[1]) = TYPEC_CC_VOLT_OPEN
    THEN set_state_unattached(c) ELSE c

fusb_try_detach(c, env) ==
    IF CC_STATE_ROLE(c) = "ACC"
    THEN DetachAcc(c, tcpm_get_cc(c, env.cable))
    ELSE IF CC_STATE_ROLE(c) = "UFP"
            /\ c.conn_state \notin
                 {"policy_snk_transition_default",
                  "policy_src_prs_source_off", "policy_snk_prs_send_swap",
                  "policy_snk_prs_assert_rp", "policy_snk_prs_source_on",
                  "policy_snk_prs_transition_to_off"}
    THEN IF ~tcpm_check_vbus(env) THEN set_state_unattached(c) ELSE c
    ELSE IF c.conn_state \notin
                 {"policy_src_transition_default",
                  "policy_src_prs_source_off", "policy_snk_prs_source_on"}
    THEN DetachCc(c, tcpm_get_cc(c, env.cable))
    ELSE [c EXCEPT !.work_continue = @ \cup {"EVENT_DELAY_CC"}]

\* a `break' after fusb_state_src_send_caps in every case
SrcSendCapsBreak(c, evt) == c

\* `case policy_src_send_caps:' has no break where the handler leaves for
\* policy_src_negotiate_cap
SrcSendCapsNext(c, evt) ==
    IF c.conn_state # "policy_src_negotiate_cap" THEN c
    ELSE fusb_state_src_transition_supply(
             fusb_state_src_negotiate_cap(c, evt), evt)

\* the switch on conn_state, with its two fall-through chains
Dispatch(c, evt, env) ==
    LET s == c.conn_state
    IN  CASE s = "disabled" -> fusb_state_disabled(c, evt)
          [] s = "error_recovery" -> set_state_unattached(c)
          [] s = "unattached" -> fusb_state_unattached(c, evt, env)
          [] s = "attach_wait_sink" ->
                 fusb_state_attach_wait_sink(c, evt, env)
          [] s = "attach_wait_source" ->
                 fusb_state_attach_wait_source(c, evt, env)
          [] s = "attached_source" -> fusb_state_attached_source(c, evt)
          [] s = "attached_sink" -> fusb_state_attached_sink(c, evt, env)
          [] s = "attach_try_src" ->
                 fusb_state_try_attach(c, evt, env, "ROLE_MODE_DFP")
          [] s = "attach_try_snk" ->
                 fusb_state_try_attach(c, evt, env, "ROLE_MODE_UFP")
          [] s = "attach_wait_audio_acc" ->
                 fusb_state_attach_wait_audio_acc(c, evt, env)
          [] s = "attached_audio_acc" ->
                 fusb_state_attached_audio_acc(c, evt)
          [] s = "policy_src_startup" -> fusb_state_src_startup(c, evt)
          [] s = "policy_src_discovery" -> fusb_state_src_discovery(c, evt)
          [] s = "policy_src_send_caps" ->
                 SrcSendCapsNext(fusb_state_src_send_caps(c, evt), evt)
          [] s = "policy_src_negotiate_cap" ->
                 fusb_state_src_transition_supply(
                     fusb_state_src_negotiate_cap(c, evt), evt)
          [] s = "policy_src_transition_supply" ->
                 fusb_state_src_transition_supply(c, evt)
          [] s = "policy_src_cap_response" ->
                 fusb_state_src_cap_response(c, evt)
          [] s = "policy_src_transition_default" ->
                 fusb_state_src_transition_default(c, evt)
          [] s = "policy_src_ready" -> fusb_state_src_ready(c, evt)
          [] s = "policy_src_get_sink_caps" ->
                 fusb_state_src_get_sink_cap(c, evt)
          [] s = "policy_src_send_hardrst" ->
                 fusb_state_src_send_hardreset(c, evt)
          [] s = "policy_src_send_softrst" ->
                 fusb_state_src_send_softreset(c, evt)
          [] s = "policy_src_softrst" -> fusb_state_src_softreset(c)
          [] s = "policy_snk_startup" -> fusb_state_snk_startup(c, evt)
          [] s = "policy_snk_discovery" -> fusb_state_snk_discovery(c, evt)
          [] s = "policy_snk_wait_caps" -> fusb_state_snk_wait_caps(c, evt)
          [] s = "policy_snk_evaluate_caps" ->
                 fusb_state_snk_select_cap(
                     fusb_state_snk_evaluate_caps(c, evt), evt, env.ub)
          [] s = "policy_snk_select_cap" ->
                 fusb_state_snk_select_cap(c, evt, env.ub)
          [] s = "policy_snk_transition_sink" ->
                 fusb_state_snk_transition_sink(c, evt)
          [] s = "policy_snk_transition_default" ->
                 fusb_state_snk_transition_default(c, evt, env)
          [] s = "policy_snk_ready" -> fusb_state_snk_ready(c, evt)
          [] s = "policy_snk_send_hardrst" ->
                 fusb_state_snk_send_hardreset(c, evt)
          [] s = "policy_snk_send_softrst" ->
                 fusb_state_snk_send_softreset(c, evt)
          [] s = "policy_snk_softrst" -> fusb_state_snk_softreset(c)
          [] s \in {"policy_src_prs_evaluate", "policy_snk_prs_evaluate"} ->
                 fusb_state_prs_evaluate(c, evt)
          [] s \in {"policy_snk_prs_accept", "policy_src_prs_accept"} ->
                 fusb_state_prs_accept(c, evt)
          [] s \in {"policy_snk_prs_reject", "policy_src_prs_reject",
                    "policy_vcs_ufp_reject", "policy_drs_dfp_reject",
                    "policy_drs_ufp_reject"} ->
                 fusb_state_prs_reject(c, evt)
          [] s = "policy_src_prs_transition_to_off" ->
                 fusb_state_src_prs_transition_to_off(c, evt)
          [] s = "policy_src_prs_assert_rd" ->
                 fusb_state_src_prs_assert_rd(c, evt)
          [] s = "policy_src_prs_source_off" ->
                 fusb_state_src_prs_source_off(c, evt)
          [] s \in {"policy_snk_prs_send_swap", "policy_src_prs_send_swap"}
                 -> fusb_state_send_swap(c, evt, CMT_PR_SWAP)
          [] s = "policy_snk_prs_transition_to_off" ->
                 fusb_state_snk_prs_transition_to_off(c, evt)
          [] s = "policy_snk_prs_assert_rp" ->
                 fusb_state_snk_prs_assert_rp(c, evt)
          [] s = "policy_snk_prs_source_on" ->
                 fusb_state_snk_prs_source_on(c, evt)
          [] s = "policy_vcs_ufp_evaluate_swap" ->
                 fusb_state_vcs_ufp_evaluate_swap(c, evt)
          [] s = "policy_vcs_ufp_accept" ->
                 fusb_state_vcs_ufp_accept(c, evt)
          [] s \in {"policy_vcs_ufp_wait_for_dfp_vconn",
                    "policy_vcs_dfp_wait_for_ufp_vconn"} ->
                 fusb_state_vcs_wait_for_vconn(c, evt)
          [] s \in {"policy_vcs_ufp_turn_off_vconn",
                    "policy_vcs_dfp_turn_off_vconn"} ->
                 fusb_state_vcs_set_vconn(c, evt, FALSE)
          [] s \in {"policy_vcs_ufp_turn_on_vconn",
                    "policy_vcs_dfp_turn_on_vconn"} ->
                 fusb_state_vcs_set_vconn(c, evt, TRUE)
          [] s \in {"policy_vcs_ufp_send_ps_rdy",
                    "policy_vcs_dfp_send_ps_rdy"} ->
                 fusb_state_vcs_send_ps_rdy(c, evt)
          [] s = "policy_vcs_dfp_send_swap" ->
                 fusb_state_send_swap(c, evt, CMT_VCONN_SWAP)
          [] s \in {"policy_drs_ufp_evaluate", "policy_drs_dfp_evaluate"} ->
                 fusb_state_drs_evaluate(c, evt)
          [] s \in {"policy_drs_dfp_accept", "policy_drs_ufp_accept"} ->
                 fusb_state_drs_send_accept(c, evt)
          [] s \in {"policy_drs_dfp_change", "policy_drs_ufp_change"} ->
                 fusb_state_drs_role_change(c, evt)
          [] s \in {"policy_drs_ufp_send_swap", "policy_drs_dfp_send_swap"}
                 -> fusb_state_send_swap(c, evt, CMT_DR_SWAP)
          [] OTHER -> c

\* the event word of the tick
TickEvt(c, in) == tcpc_alert_evt(c, in) \cup mux_alert_evt(tcpc_alert(c, in))

\* the detach check ahead of dispatch
DetachCheck(c, evt, env) ==
    IF c.notify.is_cc_connected
       /\ evt \cap {"EVENT_CC", "EVENT_DELAY_CC"} # {}
    THEN fusb_try_detach(c, env) ELSE c

\* a Soft_Reset that is honoured only between the steps of a state
RxSoftResetIdle(c) ==
    IF PACKET_IS_CONTROL_MSG(c.rec_head, CMT_SOFTRESET) /\ c.sub_state = 0
    THEN IF c.notify.power_role # 0
         THEN set_state(c, "policy_src_softrst")
         ELSE set_state(c, "policy_snk_softrst")
    ELSE c

\* a received Soft_Reset takes the machine over
RxSoftReset(c) ==
    IF PACKET_IS_CONTROL_MSG(c.rec_head, CMT_SOFTRESET)
    THEN IF c.notify.power_role # 0
         THEN set_state(c, "policy_src_softrst")
         ELSE set_state(c, "policy_snk_softrst")
    ELSE c

RxCheck(c, evt, fifo) ==
    IF "EVENT_RX" \in evt THEN RxSoftReset(tcpm_get_message(c, fifo))
    ELSE c

\* a confirmed transmission advances the message id
TxCheck(c, evt) ==
    IF "EVENT_TX" \in evt /\ c.tx_state = "tx_success"
    THEN [c EXCEPT !.msg_id = (@ + 1) % (MSG_ID_MASK + 1)]
    ELSE c

\* the tick once the alerts have left the chip `c' and the event word `evt'
StateMachine(c, evt, fifo, env) ==
    IF evt = {} THEN c
    ELSE Dispatch(TxCheck(RxCheck(DetachCheck(c, evt, env), evt, fifo),
                          evt),
                  evt, env)

state_machine_typec(c, in, env) ==
    StateMachine(mux_alert(tcpc_alert(c, in)), TickEvt(c, in), in.fifo, env)


-----------------------------------------------------------------------------
(* The environment: the cable, the port partner and the transceiver.       *)

\* partner terminations on <<CC1, CC2>>
Detached == <<"Open", "Open">>
SourcePartner == <<"Rp", "Open">>
SinkPartner == <<"Open", "Rd">>
AudioAccessory == <<"Ra", "Ra">>

\* TOGSS the toggle engine settles on for a cable, 0 while it keeps
\* toggling: 1/2 source on CC1/CC2, 5/6 sink on CC1/CC2, 7 audio accessory
TogssOf(c, cab) ==
    IF c.tog_mode # "ROLE_MODE_UFP" /\ cab[1] = "Rd" THEN 1
    ELSE IF c.tog_mode # "ROLE_MODE_UFP" /\ cab[2] = "Rd" THEN 2
    ELSE IF c.tog_mode # "ROLE_MODE_UFP" /\ cab = AudioAccessory THEN 7
    ELSE IF c.tog_mode # "ROLE_MODE_DFP" /\ cab[1] = "Rp" THEN 5
    ELSE IF c.tog_mode # "ROLE_MODE_DFP" /\ cab[2] = "Rp" THEN 6
    ELSE 0

\* STATUS0_COMP: the measured CC line is above the threshold (open)
CompOf(c, cab) ==
    IF c.cc_polarity = "TYPEC_POLARITY_CC1" THEN cab[1] = "Open"
    ELSE cab[2] = "Open"

\* frames of the port partner; the driver reads only count and type of
\* their headers
Ctrl(type) == Frame(Header(0, 0, 0, 0, type), <<>>)
Data(type, load) == Frame(Header(0, 0, 0, Len(load), type), load)
Vdm(ctype, cmd, objs) ==
    Data(DMT_VENDERDEFINED, <<VDMHeader(65281, ctype, cmd)>> \o objs)

\* k GoodCRC frames, left in the FIFO by earlier transmissions
RECURSIVE GoodCrcs(_)
GoodCrcs(k) ==
    IF k = 0 THEN <<>> ELSE <<Ctrl(CMT_GOODCRC)>> \o GoodCrcs(k - 1)

AllInts ==
    {"TOGDONE", "TXSENT", "RETRYFAIL", "HARDSENT", "GCRCSENT", "HARDRST",
     "VBUSOK", "COMP_CHNG"}

(* The port is exercised in one of several environments, each a           *)
(* device-tree configuration <<role, try_role>>, the cables that get      *)
(* plugged and whether they get unplugged, the frames the partner sends,  *)
(* how many of them, and the interrupt causes that occur.                  *)
Scenarios ==
    {[name |-> "attach",
      cfg |-> <<"ROLE_MODE_DRP", "ROLE_MODE_NONE">>,
      cables |-> {SourcePartner, SinkPartner, AudioAccessory},
      unplug |-> TRUE,
      msgs |-> {},
      rx |-> 0,
      ints |-> AllInts \ {"TXSENT", "GCRCSENT", "HARDRST"}],
     [name |-> "try",
      cfg |-> <<"ROLE_MODE_DRP", "ROLE_MODE_DFP">>,
      cables |-> {SourcePartner, SinkPartner},
      unplug |-> TRUE,
      msgs |-> {},
      rx |-> 0,
      ints |-> AllInts \ {"TXSENT", "GCRCSENT", "HARDRST"}],
     [name |-> "source",
      cfg |-> <<"ROLE_MODE_DRP", "ROLE_MODE_NONE">>,
      cables |-> {SinkPartner},
      unplug |-> FALSE,
      msgs |-> {Ctrl(CMT_SOFTRESET),
                Data(DMT_REQUEST, <<RDO(1)>>),
                Data(DMT_REQUEST, <<RDO(2)>>)},
      rx |-> MaxRx - 1,
      ints |-> AllInts \ {"HARDRST"}],
     [name |-> "sink",
      cfg |-> <<"ROLE_MODE_DRP", "ROLE_MODE_NONE">>,
      cables |-> {SourcePartner},
      unplug |-> FALSE,
      msgs |-> {Data(DMT_SOURCECAPABILITIES, <<PDO(0, 100, 50)>>),
                Ctrl(CMT_ACCEPT), Ctrl(CMT_PS_RDY)},
      rx |-> MaxRx,
      ints |-> AllInts \ {"HARDRST"}],
     [name |-> "sinkreset",
      cfg |-> <<"ROLE_MODE_DRP", "ROLE_MODE_NONE">>,
      cables |-> {SourcePartner},
      unplug |-> FALSE,
      msgs |-> {Data(DMT_SOURCECAPABILITIES, <<PDO(0, 100, 50)>>),
                Ctrl(CMT_SOFTRESET)},
      rx |-> MaxRx - 1,
      ints |-> AllInts \ {"HARDRST"}],
     [name |-> "vdm",
      cfg |-> <<"ROLE_MODE_DRP", "ROLE_MODE_NONE">>,
      cables |-> {SinkPartner},
      unplug |-> FALSE,
      msgs |-> {Data(DMT_REQUEST, <<RDO(1)>>),
                Vdm(VDM_TYPE_ACK, VDM_DISCOVERY_ID, <<W(0, 1)>>),
                Vdm(VDM_TYPE_NACK, VDM_DISCOVERY_SVIDS, <<>>)},
      rx |-> MaxRx,
      ints |-> AllInts \ {"HARDRST", "RETRYFAIL"}]}

\* interrupt causes the transceiver can raise by itself between two reads
\* of its interrupt registers: the toggle engine has settled, the
\* transmitter is done, the partner has sent something
Pending(c, cab) ==
    (IF c.toggle /\ TogssOf(c, cab) # 0 THEN {"TOGDONE"} ELSE {})
    \cup (IF c.hw_tx = "msg" THEN {"RETRYFAIL"} ELSE {})
    \cup (IF c.hw_tx = "msg" /\ cab # Detached THEN {"TXSENT"} ELSE {})
    \cup (IF c.hw_tx = "hardrst" THEN {"HARDSENT"} ELSE {})
    \cup (IF c.auto_crc /\ cab # Detached
          THEN {"GCRCSENT", "HARDRST"} ELSE {})

\* the causes one read of the interrupt registers can return: the ones
\* latched by the cable and by VBUS, and some of the pending ones
IntSets(c, cab, sc) ==
    {irq \cup i : i \in {i \in SUBSET (Pending(c, cab) \cap sc.ints) :
        /\ Cardinality(i) <= MaxInts
        /\ ~({"TXSENT", "RETRYFAIL"} \subseteq i)
        /\ ("GCRCSENT" \in i => sc.msgs # {})
        /\ (i \cap {"GCRCSENT", "HARDRST"} # {} => used.rx < sc.rx)}}

\* what the receive FIFO can hold when the interrupts `ints' are read
Fifos(ints, sc) ==
    IF "GCRCSENT" \in ints
    THEN {GoodCrcs(k) \o <<m>> : k \in 0..MaxGoodCrc, m \in sc.msgs}
    ELSE {<<>>}

\* what rec_load[-1] can hold when a Request is built with pos_power = 0
UbChoices(c) ==
    IF c.conn_state \in {"policy_snk_evaluate_caps", "policy_snk_select_cap"}
    THEN {W0, W(0, 1)} ELSE {W0}

-----------------------------------------------------------------------------
(* The state machine.                                                      *)

\* fusb30x_probe: enable_irq = 1, the work item idle, nothing suspended
WqInit ==
    [enable_irq |-> TRUE, pending |-> FALSE, pc |-> "idle", isr |-> "idle",
     suspended |-> FALSE, pm |-> "awake"]

\* fusb_initialize_timer: neither hrtimer is started
HrInit ==
    [state |-> [armed |-> FALSE, cb |-> "idle"],
     mux |-> [armed |-> FALSE, cb |-> "idle"]]

Init ==
    /\ scn \in Scenarios
    /\ chip = ChipInit(scn.cfg[1], scn.cfg[2])
    /\ cable = Detached
    /\ vbus = FALSE
    /\ rx_fifo = <<>>
    /\ irq = {}
    /\ used = [plugs |-> 0, rx |-> 0]
    /\ same_run = 0
    /\ attempts = 0
    /\ resets = 0
    /\ wq = WqInit
    /\ hr = HrInit
    /\ sent = <<>>

WaitStates ==
    {"attach_wait_sink", "attach_wait_source", "attach_wait_audio_acc"}

\* history of the debounce: how many samples in a row, up to this tick,
\* were equal to the sample before them
SameRun(c, evt, c2) ==
    IF c.conn_state \in WaitStates /\ "EVENT_TIMER_MUX" \in evt
    THEN IF <<c2.cc1, c2.cc2>> = <<c.cc1, c.cc2>> THEN same_run + 1 ELSE 0
    ELSE IF c.conn_state \in WaitStates /\ c2.conn_state = c.conn_state
    THEN same_run
    ELSE 0

\* history of the capability exchange: how many Source_Capabilities frames
\* the tick that leaves `c2' behind has handed to the transmitter since
\* policy_src_startup without one of them being confirmed; `c1' is the chip
\* once the alerts are taken
Attempts(c1, c2) ==
    IF c2.conn_state \notin
         {"policy_src_send_caps", "policy_src_discovery", "disabled"}
    THEN 0
    ELSE IF c2.conn_state = "policy_src_send_caps"
            /\ c2.tx_state = "tx_success"
    THEN 0
    ELSE IF /\ c1.hw_tx # "msg" /\ c2.hw_tx = "msg"
            /\ PACKET_IS_DATA_MSG(c2.tx_fifo.head, DMT_SOURCECAPABILITIES)
    THEN attempts + 1
    ELSE attempts

\* hard resets the port has sent since it left unattached, once the tick
\* has taken the chip from `c1', the alerts taken, to `c2': one more when
\* policy_send_hardrst has set CONTROL3_SEND_HARDRESET
Resets(c1, c2) ==
    IF c2.conn_state \in {"unattached", "disabled"}
    THEN 0
    ELSE IF c1.hw_tx # "hardrst" /\ c2.hw_tx = "hardrst" /\ resets < MaxResets
    THEN resets + 1
    ELSE resets

\* what the tick reads from the transceiver
TickIn(ints, fifo) ==
    [ints |-> ints, comp |-> CompOf(chip, cable),
     togss |-> TogssOf(chip, cable), fifo |-> fifo]
TickEnv(ub) == [cable |-> cable, vbus |-> vbus \/ chip.vbus_5v, ub |-> ub]

\* the tick has left the chip `c2'
TickChip(c2, ints, fifo) ==
    /\ chip' = c2
    /\ same_run' = SameRun(chip, TickEvt(chip, TickIn(ints, fifo)), c2)
    /\ attempts' = Attempts(tcpc_alert(chip, TickIn(ints, fifo)), c2)
    /\ used' = IF ints \cap {"GCRCSENT", "HARDRST"} # {}
               THEN [used EXCEPT !.rx = @ + 1] ELSE used
    /\ irq' = {}
    /\ UNCHANGED <<cable, vbus, rx_fifo, scn>>

\* the tick with the hard resets uncounted and the work queue and the
\* hrtimers left aside
TickTo(c2, ints, fifo) ==
    TickChip(c2, ints, fifo) /\ UNCHANGED <<resets, wq, hr, sent>>

\* fusb302_work_func runs state_machine_typec once, reading `ints' and
\* `fifo'
TickStep(ints, fifo, ub) ==
    TickTo(state_machine_typec(chip, TickIn(ints, fifo), TickEnv(ub)),
           ints, fifo)

Tick ==
    \E ints \in IntSets(chip, cable, scn) :
        \E fifo \in Fifos(ints, scn), ub \in UbChoices(chip) :
            TickStep(ints, fifo, ub)

\* fusb_timer_handler for timer_state_machine
TimerStateExpire ==
    /\ chip.timer_state \notin {T_DISABLED, T_ZERO}
    /\ chip' = [chip EXCEPT !.timer_state = T_ZERO]
    /\ UNCHANGED <<cable, vbus, rx_fifo, irq, scn, used, same_run, attempts,
                   resets, wq, hr, sent>>

\* fusb_timer_handler for timer_mux_machine
TimerMuxExpire ==
    /\ chip.timer_mux \notin {T_DISABLED, T_ZERO}
    /\ chip' = [chip EXCEPT !.timer_mux = T_ZERO]
    /\ UNCHANGED <<cable, vbus, rx_fifo, irq, scn, used, same_run, attempts,
                   resets, wq, hr, sent>>

\* the user plugs or unplugs a cable; the comparator interrupt is latched
\* when it is unmasked and the comparator output changes
CableChange ==
    /\ \E cab \in (scn.cables \cup {Detached}) \ {cable} :
           /\ Detached \in {cab, cable}
           /\ cable = Detached => used.plugs < MaxPlugs
           /\ cab = Detached => scn.unplug
           /\ cable' = cab
           /\ used' = IF cable = Detached
                      THEN [used EXCEPT !.plugs = @ + 1] ELSE used
           /\ irq' = IF /\ ~chip.mask_comp_chng
                        /\ CompOf(chip, cab) # CompOf(chip, cable)
                     THEN irq \cup {"COMP_CHNG"} ELSE irq
    /\ UNCHANGED <<chip, vbus, rx_fifo, scn, same_run, attempts,
                   resets, wq, hr, sent>>

\* the partner switches its VBUS supply; MASK_M_VBUSOK is cleared by
\* tcpm_init, so the change is latched
VbusChange ==
    /\ vbus \/ "Rp" \in {cable[1], cable[2]}
    /\ vbus => scn.unplug
    /\ vbus' = ~vbus
    /\ irq' = irq \cup {"VBUSOK"}
    /\ UNCHANGED <<chip, cable, rx_fifo, scn, used, same_run, attempts,
                   resets, wq, hr, sent>>

Next ==
    \/ Tick
    \/ TimerStateExpire
    \/ TimerMuxExpire
    \/ CableChange
    \/ VbusChange

Spec == Init /\ [][Next]_vars

-----------------------------------------------------------------------------
(* Properties.                                                             *)

\* attach_wait_sink is also left when VBUS is seen and the port has a
\* source role still to try or has tried it: that exit does not rest on
\* the CC classification
VbusExit ==
    /\ chip.conn_state = "attach_wait_sink"
    /\ vbus \/ chip.vbus_5v
    /\ \/ chip.try_role_complete
       \/ chip.role = "ROLE_MODE_DRP" /\ chip.try_role = "ROLE_MODE_DFP"

\* C1: an attach-wait state is left on the CC classification only once
\* more than N_DEBOUNCE_CNT samples in a row, i.e. N_DEBOUNCE_CNT + 1,
\* were equal to the stored <<cc1, cc2>>
C1_Debounce ==
    [][(/\ chip.conn_state \in WaitStates
        /\ chip'.conn_state # chip.conn_state
        /\ ~VbusExit)
       => same_run' > N_DEBOUNCE_CNT]_vars

C1_Witness ==
    chip.conn_state = "attached_source" /\ same_run = N_DEBOUNCE_CNT + 1

\* C2: msg_id advances by one, modulo MSG_ID_MASK + 1, exactly when a
\* message handed to the transmitter is confirmed sent, and on no other
\* event (fusb_soft_reset_parameter may set it back to 0)
C2_MsgIdOnlyOnSend ==
    [][chip'.msg_id \notin {chip.msg_id, 0}
       => /\ chip.hw_tx = "msg"
          /\ chip'.msg_id = (chip.msg_id + 1) % (MSG_ID_MASK + 1)]_vars

-----------------------------------------------------------------------------
(* The receive path alone: the partner's Request comes after the GoodCRC   *)
(* frames of earlier transmissions, and the tick fetches it.               *)

RequestFifos ==
    {GoodCrcs(k) \o <<Data(DMT_REQUEST, <<RDO(p)>>)>> :
        k \in 0..MaxCrcRun, p \in 0..7}

InitFifo ==
    /\ scn = CHOOSE s \in Scenarios : s.name = "source"
    /\ chip = ChipInit(scn.cfg[1], scn.cfg[2])
    /\ cable = SinkPartner
    /\ vbus = FALSE
    /\ rx_fifo \in RequestFifos
    /\ irq = {}
    /\ used = [plugs |-> 0, rx |-> 0]
    /\ same_run = 0
    /\ attempts = 0
    /\ resets = 0
    /\ wq = WqInit
    /\ hr = HrInit
    /\ sent = <<>>

\* state_machine_typec, `if (evt & EVENT_RX)': the message is fetched
FifoRead ==
    /\ rx_fifo # <<>>
    /\ chip' = tcpm_get_message(chip, rx_fifo)
    /\ rx_fifo' = FifoAfterRead(rx_fifo)
    /\ used' = [used EXCEPT !.rx = @ + 1]
    /\ UNCHANGED <<cable, vbus, irq, scn, same_run, attempts,
                   resets, wq, hr, sent>>

\* the partner sends its next Request
FifoArrive ==
    /\ rx_fifo = <<>>
    /\ used.rx < MaxRx
    /\ rx_fifo' \in RequestFifos
    /\ UNCHANGED <<chip, cable, vbus, irq, scn, used, same_run, attempts,
                   resets, wq, hr, sent>>

NextFifo == FifoRead \/ FifoArrive

SpecFifo == InitFifo /\ [][NextFifo]_vars

\* C3: with any number of GoodCRC frames ahead of one Request in the
\* receive FIFO, tcpm_get_message leaves exactly the Request in rec_head
\* and rec_load, and rec_head is not a GoodCRC once it has returned
C3_GoodCrcTransparent ==
    [][rx_fifo # <<>>
       => /\ chip'.rec_head = rx_fifo[Len(rx_fifo)].head
          /\ chip'.rec_load[1] = rx_fifo[Len(rx_fifo)].load[1]
          /\ \A i \in 2..7 : chip'.rec_load[i] = chip.rec_load[i]
          /\ PACKET_IS_DATA_MSG(chip'.rec_head, DMT_REQUEST)
          /\ ~PACKET_IS_CONTROL_MSG(chip'.rec_head, CMT_GOODCRC)
          /\ rx_fifo' = <<>>]_vars

C3_Witness ==
    /\ used.rx > 0
    /\ rx_fifo = <<>>
    /\ PACKET_IS_DATA_MSG(chip.rec_head, DMT_REQUEST)
    /\ RequestPosition(chip.rec_load[1]) = 5

\* the states of the capability retry loop and its end
CapsLoop == {"policy_src_send_caps", "policy_src_discovery", "disabled"}

\* C4 as stated: whenever policy_src_discovery gives up for disabled,
\* exactly N_CAPS_COUNT Source_Capabilities transmissions have failed
C4_ExactlyNCapsCount ==
    [][(chip.conn_state = "policy_src_discovery"
        /\ chip'.conn_state = "disabled")
       => attempts' = N_CAPS_COUNT]_vars

\* C4: while every Source_Capabilities transmission fails the port
\* alternates policy_src_send_caps and policy_src_discovery, it never makes
\* more than N_CAPS_COUNT attempts, and it goes to disabled after exactly
\* N_CAPS_COUNT of them unless the NoResponse timer, running since a hard
\* reset, expires in policy_src_discovery first
C4_RetryBound ==
    [][/\ attempts' <= N_CAPS_COUNT
       /\ (/\ chip.conn_state = "policy_src_send_caps"
           /\ chip.tx_state = "tx_busy"
           /\ chip'.tx_state = "tx_failed"
           /\ chip'.conn_state \in CapsLoop)
          => chip'.conn_state = "policy_src_discovery" /\ chip'.sub_state = 0
       /\ (/\ chip.conn_state = "policy_src_discovery"
           /\ chip.sub_state = 0
           /\ chip'.conn_state \in CapsLoop
           /\ <<chip'.conn_state, chip'.sub_state>>
                  # <<chip.conn_state, chip.sub_state>>)
          => IF attempts = N_CAPS_COUNT
             THEN chip'.conn_state = "disabled" /\ attempts' = N_CAPS_COUNT
             ELSE /\ chip'.conn_state = "policy_src_discovery"
                  /\ chip'.timer_state = "T_TYPEC_SEND_SOURCECAP"
       /\ (/\ chip.conn_state = "policy_src_discovery"
           /\ chip.sub_state # 0
           /\ chip'.conn_state \in CapsLoop
           /\ chip'.conn_state # chip.conn_state)
          => \/ /\ chip'.conn_state = "policy_src_send_caps"
                /\ attempts' < N_CAPS_COUNT
             \/ chip'.conn_state = "disabled" /\ chip.timer_mux = T_ZERO
      ]_vars

C4_Witness ==
    /\ chip.conn_state = "disabled"
    /\ attempts = N_CAPS_COUNT
    /\ chip.caps_counter = N_CAPS_COUNT

\* the receiver answers frames: PD is running and a partner is attached
Receiving == chip.auto_crc /\ cable # Detached

\* the chip a tick leaves when it reads `ints' and `fifo'
TickOf(ints, fifo) ==
    state_machine_typec(chip, TickIn(ints, fifo), TickEnv(W0))

\* what can be read together with the reception of a Soft_Reset
SoftResetInts ==
    {{"GCRCSENT"}, {"GCRCSENT", "TXSENT"}, {"GCRCSENT", "RETRYFAIL"}}

\* the soft-reset flow of the power role `role' has been entered and its
\* Accept handed to the transmitter
SoftResetFlow(c2, role) ==
    /\ c2.conn_state = IF role # 0 THEN "policy_src_softrst"
                       ELSE "policy_snk_softrst"
    /\ PACKET_IS_CONTROL_MSG(c2.tx_fifo.head, CMT_ACCEPT)
    /\ c2.hw_tx = "msg"

\* C5: in every state in which PD messages are received, whatever
\* sub_state is, a tick that receives Soft_Reset ends in policy_src_softrst
\* or policy_snk_softrst, by power role, with Accept handed to the
\* transmitter; once Accept is confirmed sent the source restarts at
\* policy_src_send_caps and the sink at policy_snk_wait_caps
C5_SoftResetUniversal ==
    /\ Receiving
       => \A ints \in SoftResetInts :
              SoftResetFlow(TickOf(ints, <<Ctrl(CMT_SOFTRESET)>>),
                            chip.notify.power_role)
    /\ (chip.conn_state = "policy_src_softrst" /\ chip.hw_tx = "msg")
       => TickOf({"TXSENT"}, <<>>).conn_state = "policy_src_send_caps"
    /\ (chip.conn_state = "policy_snk_softrst" /\ chip.hw_tx = "msg")
       => TickOf({"TXSENT"}, <<>>).conn_state = "policy_snk_wait_caps"

C5_Witness ==
    /\ chip.conn_state = "policy_src_softrst"
    /\ chip.notify.is_pd_connected
    /\ PACKET_IS_CONTROL_MSG(chip.rec_head, CMT_SOFTRESET)
    /\ PACKET_IS_CONTROL_MSG(chip.tx_fifo.head, CMT_ACCEPT)
    /\ chip.hw_tx = "msg"

ReadyStates == {"policy_src_ready", "policy_snk_ready"}

\* a step of the Auto-VDM engine is in progress
VdmStep ==
    /\ chip.conn_state \in ReadyStates
    /\ VDM_IS_ACTIVE(chip)
    /\ chip.vdm_send_state # 0

\* the engine has stopped and nothing else has happened to the connection
VdmIsolated(c2) ==
    /\ c2.vdm_state = VDM_STATE_ERR
    /\ c2.conn_state = chip.conn_state
    /\ c2.notify.is_pd_connected = chip.notify.is_pd_connected
    /\ c2.notify.is_cc_connected = chip.notify.is_cc_connected

VdmCmds ==
    {VDM_DISCOVERY_ID, VDM_DISCOVERY_SVIDS, VDM_DISCOVERY_MODES,
     VDM_ENTER_MODE, VDM_DP_STATUS_UPDATE, VDM_DP_CONFIG}

\* C6: in every step of the Auto-VDM engine a NACK, a failed transmission
\* of the request and the expiry of the response timer each set vdm_state
\* to VDM_STATE_ERR and leave conn_state at the ready state and
\* is_pd_connected as they are: no soft reset, hard reset or detach
C6_VdmFailureIsolated ==
    /\ (VdmStep /\ Receiving)
       => \A cmd \in VdmCmds :
              VdmIsolated(TickOf({"GCRCSENT"},
                                 <<Vdm(VDM_TYPE_NACK, cmd, <<>>)>>))
    /\ (VdmStep /\ chip.vdm_send_state = 1 /\ chip.hw_tx = "msg")
       => VdmIsolated(TickOf({"RETRYFAIL"}, <<>>))
    /\ (VdmStep /\ chip.vdm_send_state = 2 /\ chip.timer_state = T_ZERO)
       => VdmIsolated(TickOf({}, <<>>))

C6_Witness ==
    /\ chip.conn_state = "policy_src_ready"
    /\ chip.vdm_state = VDM_STATE_ERR
    /\ chip.vdm_send_state # 0
    /\ chip.notify.is_pd_connected
    /\ PACKET_IS_DATA_MSG(chip.rec_head, DMT_VENDERDEFINED)
    /\ GET_VDMHEAD_CMD_TYPE(chip.rec_load[1]) = VDM_TYPE_NACK
    /\ GET_VDMHEAD_CMD(chip.rec_load[1]) = VDM_DISCOVERY_SVIDS

-----------------------------------------------------------------------------
(* A sink attach with a source that keeps to the protocol: it presents Rp  *)
(* on CC1, switches VBUS on, sends Source_Capabilities with one fixed 5 V  *)
(* / 500 mA supply when the port waits for them, confirms the Request,     *)
(* and answers Accept and then PS_RDY. Only the 2 ms polling timers        *)
(* expire: the source answers within every deadline.                       *)

\* the port is a DRP, without a role to try first or trying the sink role
InitAttach ==
    /\ scn = CHOOSE s \in Scenarios : s.name = "sink"
    /\ chip \in {ChipInit("ROLE_MODE_DRP", try) :
                    try \in {"ROLE_MODE_NONE", "ROLE_MODE_UFP"}}
    /\ cable = Detached
    /\ vbus = FALSE
    /\ rx_fifo = <<>>
    /\ irq = {}
    /\ used = [plugs |-> 0, rx |-> 0]
    /\ same_run = 0
    /\ attempts = 0
    /\ resets = 0
    /\ wq = WqInit
    /\ hr = HrInit
    /\ sent = <<>>

\* the frame the source sends as its frame number `n', if the port is
\* where the source sends it
PartnerFrames(c, n) ==
    IF n = 0 /\ c.conn_state = "policy_snk_wait_caps"
    THEN {Data(DMT_SOURCECAPABILITIES, <<PDO(0, 100, 50)>>)}
    ELSE IF n = 1 /\ c.conn_state = "policy_snk_select_cap"
    THEN {Ctrl(CMT_ACCEPT)}
    ELSE IF n = 2 /\ c.conn_state = "policy_snk_transition_sink"
    THEN {Ctrl(CMT_PS_RDY)}
    ELSE {}

\* the interrupt causes a tick can read: the toggle engine has settled,
\* the transmission is confirmed, the next frame of the source is in; the
\* Accept comes with or after the confirmation of the Request
AttachInts(c) ==
    {irq \cup tog \cup tx \cup rx :
        tog \in SUBSET (IF c.toggle /\ TogssOf(c, cable) # 0
                        THEN {"TOGDONE"} ELSE {}),
        tx \in SUBSET (IF c.hw_tx = "msg" THEN {"TXSENT"} ELSE {}),
        rx \in SUBSET (IF /\ PartnerFrames(c, used.rx) # {}
                          /\ c.auto_crc
                          /\ (used.rx = 1 => c.tx_state = "tx_success")
                       THEN {"GCRCSENT"} ELSE {})}
    \cup (IF /\ PartnerFrames(c, used.rx) # {}
             /\ c.auto_crc
             /\ c.hw_tx = "msg"
          THEN {irq \cup {"TXSENT", "GCRCSENT"}} ELSE {})

AttachFifos(c, ints) ==
    IF "GCRCSENT" \in ints
    THEN {GoodCrcs(k) \o <<m>> :
              k \in 0..MaxGoodCrc, m \in PartnerFrames(c, used.rx)}
    ELSE {<<>>}

AttachTick ==
    \E ints \in AttachInts(chip) :
        \E fifo \in AttachFifos(chip, ints) : TickStep(ints, fifo, W0)

\* the cable of the source is plugged
AttachPlug ==
    /\ cable = Detached
    /\ cable' = SourcePartner
    /\ used' = [used EXCEPT !.plugs = @ + 1]
    /\ irq' = IF /\ ~chip.mask_comp_chng
                 /\ CompOf(chip, SourcePartner) # CompOf(chip, cable)
              THEN irq \cup {"COMP_CHNG"} ELSE irq
    /\ UNCHANGED <<chip, vbus, rx_fifo, scn, same_run, attempts,
                   resets, wq, hr, sent>>

\* the source switches VBUS on
AttachVbus ==
    /\ cable = SourcePartner
    /\ ~vbus
    /\ vbus' = TRUE
    /\ irq' = irq \cup {"VBUSOK"}
    /\ UNCHANGED <<chip, cable, rx_fifo, scn, used, same_run, attempts,
                   resets, wq, hr, sent>>

\* fusb_timer_handler for a 2 ms polling timer
AttachPoll ==
    \/ chip.timer_mux = "2ms" /\ TimerMuxExpire
    \/ chip.timer_state = "2ms" /\ TimerStateExpire

NextAttach == AttachTick \/ AttachPlug \/ AttachVbus \/ AttachPoll

\* the work is queued by the interrupt and by the timers and runs; the
\* user plugs the cable and the source switches VBUS on
SpecAttach ==
    /\ InitAttach
    /\ [][NextAttach]_vars
    /\ WF_vars(AttachTick)
    /\ WF_vars(AttachPlug)
    /\ WF_vars(AttachVbus)
    /\ WF_vars(AttachPoll)

SinkReady ==
    chip.conn_state = "policy_snk_ready" /\ chip.notify.is_pd_connected

\* C7: from unattached as DRP, with Rp on CC1 and CC2 open through the
\* debounce and VBUS present, the port comes to attached_sink, then to
\* policy_snk_startup, and after Source_Capabilities with one fixed 5 V /
\* 500 mA supply, the confirmed Request, Accept and PS_RDY it reaches
\* policy_snk_ready with notify.is_pd_connected set
C7_SinkAttach ==
    <>(/\ chip.conn_state = "attached_sink"
       /\ <>(/\ chip.conn_state = "policy_snk_startup"
             /\ <>SinkReady))

C7_Witness ==
    /\ SinkReady
    /\ used.rx = 3
    /\ PACKET_IS_DATA_MSG(chip.tx_fifo.head, DMT_REQUEST)
    /\ RequestPosition(chip.tx_fifo.load[1]) = 1

-----------------------------------------------------------------------------
(* The pin assignment alone: the mode VDO of the partner has been stored   *)
(* in notify.dp_caps, DP status updates arrive, and the DP configuration   *)
(* is built.                                                               *)

\* a DisplayPort mode VDO offering the pin configs `pins': in bits 21..16
\* for a receptacle (bit 6), else in bits 13..8, with the other field
\* holding the other configs; bit 3 tells USB Gen 2 signalling
ModeVdo(pins, rcpt, gen2) ==
    IF rcpt = 1 THEN W(pins, (63 - pins) * 256 + 64 + gen2 * 8)
    ELSE W(63 - pins, pins * 256 + gen2 * 8)

\* DP status words: connected, enabled, HPD, with and without bit 4
DpStatuses == {0, 16, 138, 154}

InitPin ==
    /\ scn = CHOOSE s \in Scenarios : s.name = "vdm"
    /\ chip \in {[ChipInit(scn.cfg[1], scn.cfg[2])
                     EXCEPT !.notify.dp_caps = ModeVdo(pins, rcpt, gen2)] :
                 pins \in 0..63, rcpt \in 0..1, gen2 \in 0..1}
    /\ cable = SinkPartner
    /\ vbus = FALSE
    /\ rx_fifo = <<>>
    /\ irq = {}
    /\ used = [plugs |-> 0, rx |-> 0]
    /\ same_run = 0
    /\ attempts = 0
    /\ resets = 0
    /\ wq = WqInit
    /\ hr = HrInit
    /\ sent = <<>>

\* process_vdm_msg takes the ACK of a DP status update
PinStatus ==
    /\ used.rx < MaxRx
    /\ \E s \in DpStatuses :
           chip' = ProcessVdm([chip EXCEPT !.rec_load[2] = W(0, s)],
                              VDM_DP_STATUS_UPDATE, VDM_TYPE_ACK)
    /\ used' = [used EXCEPT !.rx = @ + 1]
    /\ UNCHANGED <<cable, vbus, rx_fifo, irq, scn, same_run, attempts,
                   resets, wq, hr, sent>>

\* vdm_send_dpconfig builds the DP configuration
PinConfig ==
    /\ chip' = set_vdm_mesg(chip, VDM_DP_CONFIG, VDM_TYPE_INIT, 0)
    /\ UNCHANGED <<cable, vbus, rx_fifo, irq, scn, used, same_run, attempts,
                   resets, wq, hr, sent>>

NextPin == PinStatus \/ PinConfig

SpecPin == InitPin /\ [][NextPin]_vars

\* pin configs as sets of letters: A = 0 .. F = 5
PinsOffered(caps) == {n \in 0..5 : Bit(PD_DP_PIN_CAPS(caps), n) = 1}
PinsMultiFunction(S, status) ==
    IF PD_VDO_DPSTS_MF_PREF(status) = 1 THEN S ELSE S \ {1, 3, 5}
PinsSignalling(S, caps) ==
    IF PD_DP_SIGNAL_GEN2(caps) = 1 THEN S \ {2, 3, 4, 5} ELSE S \ {0, 1}
PinsPreferCD(S) == IF S \cap {2, 3} # {} THEN S \ {4, 5} ELSE S
PinCandidates(caps, status) ==
    PinsPreferCD(PinsSignalling(PinsMultiFunction(PinsOffered(caps), status),
                                caps))
PinOfSet(S) ==
    IF S = {} THEN 0 ELSE Pow2(CHOOSE n \in S : \A m \in S : m <= n)

C10_RejectIsSent ==
    (chip.conn_state = "policy_src_cap_response" /\ chip.hw_tx = "msg")
    => PACKET_IS_CONTROL_MSG(chip.tx_fifo.head, CMT_REJECT)


(***************************************************************************)
(* The source attached to a sink that confirms what it is sent and never   *)
(* answers, with the hard resets of the connection counted.                *)
(***************************************************************************)
Silent ==
    [name |-> "silent",
     cfg |-> <<"ROLE_MODE_DRP", "ROLE_MODE_NONE">>,
     cables |-> {SinkPartner},
     unplug |-> FALSE,
     msgs |-> {},
     rx |-> 0,
     ints |-> AllInts \ {"GCRCSENT", "HARDRST"}]

InitReset ==
    /\ scn = Silent
    /\ chip = ChipInit(scn.cfg[1], scn.cfg[2])
    /\ cable = Detached
    /\ vbus = FALSE
    /\ rx_fifo = <<>>
    /\ irq = {}
    /\ used = [plugs |-> 0, rx |-> 0]
    /\ same_run = 0
    /\ attempts = 0
    /\ resets = 0
    /\ wq = WqInit
    /\ hr = HrInit
    /\ sent = <<>>

\* fusb302_work_func runs state_machine_typec once, and the hard reset it
\* commands is counted
ResetTick ==
    \E ints \in IntSets(chip, cable, scn) :
        \E fifo \in Fifos(ints, scn), ub \in UbChoices(chip) :
            /\ TickChip(state_machine_typec(chip, TickIn(ints, fifo),
                                            TickEnv(ub)),
                        ints, fifo)
            /\ resets' = Resets(tcpc_alert(chip, TickIn(ints, fifo)), chip')
            /\ UNCHANGED <<wq, hr, sent>>

NextReset ==
    \/ ResetTick
    \/ TimerStateExpire
    \/ TimerMuxExpire
    \/ CableChange

SpecReset == InitReset /\ [][NextReset]_vars

\* C11: between leaving unattached and the next return to unattached or
\* disabled the port sends at most N_HARDRESET_COUNT + 1 hard resets
\* (hardrst_count <= N_HARDRESET_COUNT admits one), whatever the partner
\* does
C11_HardResetBounded ==
    resets <= N_HARDRESET_COUNT + 1


\* the timer of the state machine has expired in policy_src_send_caps; with
\* sub_state 2 it is the SenderResponse timer
SendCapsTimeout ==
    chip.conn_state = "policy_src_send_caps" /\ chip.timer_state = T_ZERO

\* the state the tick that finds the expiry, and no interrupt, leaves
TimeoutTo == TickOf({}, <<>>).conn_state

Unattached(c2) ==
    /\ c2.conn_state = "unattached"
    /\ c2.notify = NotifyZero
    /\ c2.notify_cmp = NotifyZero
    /\ ~c2.vbus_5v
    /\ c2.cc_state = CcZero
    /\ ~c2.try_role_complete
    /\ c2.toggle
    /\ c2.tog_mode = c2.role

\* C13: whenever conn_state is error_recovery the next tick, whatever it
\* reads from the transceiver, performs set_state_unattached: conn_state is
\* unattached, the notify snapshot is all-zero and published, VBUS is off,
\* cc_state is 0, try_role_complete is false and the CC toggling for the
\* configured role is armed
C13_ErrorRecovery ==
    chip.conn_state = "error_recovery"
    => \A ints \in IntSets(chip, cable, scn) :
           \A fifo \in Fifos(ints, scn) : Unattached(TickOf(ints, fifo))


(***************************************************************************)
(* The interrupt thread, the work item, the hrtimer callbacks and the      *)
(* power management callbacks as concurrent processes, around the sink     *)
(* that is attached to a source.  The body of a tick is one step; the      *)
(* steps between which another thread can run are kept apart.              *)
(***************************************************************************)
InitWork == InitAttach /\ chip.try_role = "ROLE_MODE_NONE"

\* the interrupt causes the transceiver can latch in the state `c'
Raisable(c) ==
    (IF c.toggle /\ TogssOf(c, cable) # 0 THEN {"TOGDONE"} ELSE {})
    \cup (IF c.hw_tx = "msg" THEN {"TXSENT"} ELSE {})
    \cup (IF /\ PartnerFrames(c, used.rx) # {}
             /\ c.auto_crc
             /\ (used.rx = 1
                 => c.tx_state = "tx_success" \/ "TXSENT" \in irq)
          THEN {"GCRCSENT"} ELSE {})

\* the transceiver latches a cause and pulls INT_N low
WorkRaise ==
    /\ \E i \in Raisable(chip) \ irq : irq' = irq \cup {i}
    /\ UNCHANGED <<chip, cable, vbus, rx_fifo, scn, used, same_run, attempts,
                   resets, wq, hr, sent>>

\* platform_get_device_irq_state: INT_N is low while a cause is latched
LineAsserted == irq # {}

\* the hrtimer `t' after a tick has taken the timer value from `old' to
\* `new': a duration is always stored together with fusb_timer_start
Started(t, old, new) ==
    IF new \notin {T_DISABLED, T_ZERO} /\ new # old
    THEN [t EXCEPT !.armed = TRUE] ELSE t

\* fusb302_work_func up to the label BACK of state_machine_typec
WorkStart ==
    /\ wq.pending
    /\ wq.pc = "idle"
    /\ IF wq.suspended
       THEN /\ wq' = [wq EXCEPT !.pending = FALSE]
            /\ UNCHANGED <<chip, cable, vbus, rx_fifo, irq, scn, used,
                           same_run, attempts, resets, hr, sent>>
       ELSE \E fifo \in AttachFifos(chip, irq) :
                /\ TickChip(state_machine_typec(chip, TickIn(irq, fifo),
                                                TickEnv(W0)),
                            irq, fifo)
                /\ wq' = [wq EXCEPT !.pending = FALSE, !.pc = "back"]
                /\ UNCHANGED <<resets, sent>>
                /\ hr' = [state |-> Started(
                              hr.state,
                              mux_alert(tcpc_alert(
                                  chip, TickIn(irq, fifo))).timer_state,
                              chip'.timer_state),
                          mux |-> Started(
                              hr.mux,
                              mux_alert(tcpc_alert(
                                  chip, TickIn(irq, fifo))).timer_mux,
                              chip'.timer_mux)]

\* BACK without the test of work_continue
WorkBackEager ==
    /\ wq.pc = "back"
    /\ wq' = IF LineAsserted
             THEN [wq EXCEPT !.pending = TRUE, !.pc = "idle"]
             ELSE [wq EXCEPT !.pc = "enable"]
    /\ UNCHANGED <<chip, cable, vbus, rx_fifo, irq, scn, used, same_run,
                   attempts, resets, hr, sent>>

\* BACK: requeue for work_continue or for a line still asserted
WorkBack ==
    /\ wq.pc = "back"
    /\ wq' = IF chip.work_continue # {} \/ LineAsserted
             THEN [wq EXCEPT !.pending = TRUE, !.pc = "idle"]
             ELSE [wq EXCEPT !.pc = "enable"]
    /\ UNCHANGED <<chip, cable, vbus, rx_fifo, irq, scn, used, same_run,
                   attempts, resets, hr, sent>>

\* fusb_irq_enable at the end of the tick
WorkEnable ==
    /\ wq.pc = "enable"
    /\ wq' = [wq EXCEPT !.enable_irq = TRUE, !.pc = "idle"]
    /\ UNCHANGED <<chip, cable, vbus, rx_fifo, irq, scn, used, same_run,
                   attempts, resets, hr, sent>>

\* cc_interrupt_handler: queue_work
IsrQueue ==
    /\ LineAsserted
    /\ wq.enable_irq
    /\ wq.isr = "idle"
    /\ wq' = [wq EXCEPT !.pending = TRUE, !.isr = "queued"]
    /\ UNCHANGED <<chip, cable, vbus, rx_fifo, irq, scn, used, same_run,
                   attempts, resets, hr, sent>>

\* cc_interrupt_handler: fusb_irq_disable
IsrDisable ==
    /\ wq.isr = "queued"
    /\ wq' = [wq EXCEPT !.enable_irq = FALSE, !.isr = "idle"]
    /\ UNCHANGED <<chip, cable, vbus, rx_fifo, irq, scn, used, same_run,
                   attempts, resets, hr, sent>>

\* fusb_timer_handler: the deadline of timer_state_machine has passed; the
\* callback reads timer_state
TimerStateFire ==
    /\ hr.state.armed
    /\ hr.state.cb = "idle"
    /\ IF chip.timer_state # T_DISABLED
       THEN /\ hr' = [hr EXCEPT !.state = [armed |-> FALSE, cb |-> "mark"]]
            /\ wq' = wq
       ELSE /\ hr' = [hr EXCEPT !.state.armed = FALSE]
            /\ wq' = [wq EXCEPT !.pending = TRUE]
    /\ UNCHANGED <<chip, cable, vbus, rx_fifo, irq, scn, used, same_run,
                   attempts, resets, sent>>

\* fusb_timer_handler: timer_state = 0 and queue_work
TimerStateMark ==
    /\ hr.state.cb = "mark"
    /\ chip' = [chip EXCEPT !.timer_state = T_ZERO]
    /\ hr' = [hr EXCEPT !.state.cb = "idle"]
    /\ wq' = [wq EXCEPT !.pending = TRUE]
    /\ UNCHANGED <<cable, vbus, rx_fifo, irq, scn, used, same_run, attempts,
                   resets, sent>>

\* fusb_timer_handler: the deadline of timer_mux_machine has passed
TimerMuxFire ==
    /\ hr.mux.armed
    /\ hr.mux.cb = "idle"
    /\ IF chip.timer_mux # T_DISABLED
       THEN /\ hr' = [hr EXCEPT !.mux = [armed |-> FALSE, cb |-> "mark"]]
            /\ wq' = wq
       ELSE /\ hr' = [hr EXCEPT !.mux.armed = FALSE]
            /\ wq' = [wq EXCEPT !.pending = TRUE]
    /\ UNCHANGED <<chip, cable, vbus, rx_fifo, irq, scn, used, same_run,
                   attempts, resets, sent>>

\* fusb_timer_handler: timer_mux = 0 and queue_work
TimerMuxMark ==
    /\ hr.mux.cb = "mark"
    /\ chip' = [chip EXCEPT !.timer_mux = T_ZERO]
    /\ hr' = [hr EXCEPT !.mux.cb = "idle"]
    /\ wq' = [wq EXCEPT !.pending = TRUE]
    /\ UNCHANGED <<cable, vbus, rx_fifo, irq, scn, used, same_run, attempts,
                   resets, sent>>

\* fusb30x_pm_suspend: fusb_irq_disable, suspended = true, and
\* cancel_work_sync, which waits for a running tick
PmSuspend ==
    /\ \/ /\ wq.pm = "awake"
          /\ wq' = [wq EXCEPT !.enable_irq = FALSE, !.pm = "disabled"]
       \/ /\ wq.pm = "disabled"
          /\ wq' = [wq EXCEPT !.suspended = TRUE, !.pm = "cancel"]
       \/ /\ wq.pm = "cancel"
          /\ wq.pc = "idle"
          /\ wq' = [wq EXCEPT !.pending = FALSE, !.pm = "asleep"]
    /\ UNCHANGED <<chip, cable, vbus, rx_fifo, irq, scn, used, same_run,
                   attempts, resets, hr, sent>>

\* fusb30x_pm_resume: fusb_irq_enable, suspended = false, queue_work
PmResume ==
    /\ \/ /\ wq.pm = "asleep"
          /\ wq' = [wq EXCEPT !.enable_irq = TRUE, !.pm = "enabled"]
       \/ /\ wq.pm = "enabled"
          /\ wq' = [wq EXCEPT !.suspended = FALSE, !.pm = "queue"]
       \/ /\ wq.pm = "queue"
          /\ wq' = [wq EXCEPT !.pending = TRUE, !.pm = "awake"]
    /\ UNCHANGED <<chip, cable, vbus, rx_fifo, irq, scn, used, same_run,
                   attempts, resets, hr, sent>>

NextWork ==
    \/ AttachPlug
    \/ AttachVbus
    \/ WorkRaise
    \/ WorkStart
    \/ WorkBack
    \/ WorkEnable
    \/ IsrQueue
    \/ IsrDisable
    \/ TimerStateFire
    \/ TimerStateMark
    \/ TimerMuxFire
    \/ TimerMuxMark
    \/ PmSuspend
    \/ PmResume

SpecWork == InitWork /\ [][NextWork]_vars


\* no tick is queued or running
WorkIdle == ~wq.pending /\ wq.pc = "idle"

\* C14: for every interleaving of cc_interrupt_handler with a tick the
\* port is never left with the interrupt disabled, no tick queued or
\* running, and neither suspended nor suspending
C14_NoLostWakeup ==
    ~(~wq.enable_irq /\ WorkIdle /\ ~wq.suspended /\ wq.pm = "awake")


\* C15: once fusb30x_pm_suspend has returned, and until fusb30x_pm_resume
\* runs, the interrupt is disabled and no tick is processing events,
\* whatever the tick that was in flight did meanwhile
C15_SuspendQuiet ==
    wq.pm = "asleep" => ~wq.enable_irq /\ wq.pc = "idle"


\* C16: a tick that ends with work_continue set requeues the worker and
\* leaves the interrupt as it is; a tick that ends with work_continue clear
\* requeues itself if INT_N is still asserted and goes on to
\* fusb_irq_enable otherwise; apart from fusb30x_pm_resume nothing else
\* re-enables the interrupt
C16_ContinueBeforeEnable ==
    [][/\ (wq.pc = "back" /\ wq'.pc # "back")
          => /\ chip.work_continue # {} \/ LineAsserted
                => /\ wq'.pending
                   /\ wq'.pc = "idle"
                   /\ wq'.enable_irq = wq.enable_irq
             /\ wq'.pc = "enable"
                <=> chip.work_continue = {} /\ ~LineAsserted
       /\ (wq.pc = "enable" /\ wq'.pc # "enable") => wq'.enable_irq
       /\ (~wq.enable_irq /\ wq'.enable_irq)
          => \/ wq.pc = "enable" /\ chip.work_continue = {}
             \/ wq.pm = "asleep"]_vars

C16_Witness ==
    /\ wq.pc = "idle"
    /\ wq.pending
    /\ chip.work_continue # {}
    /\ ~wq.enable_irq


\* policy_snk_select_cap has handed its Request to the transmitter and the
\* confirmation is not in yet
RequestInFlight ==
    /\ chip.conn_state = "policy_snk_select_cap"
    /\ chip.sub_state = 1
    /\ chip.tx_state = "tx_busy"
    /\ chip.hw_tx = "msg"

\* the state the tick leaves that finds the running timer of the state
\* machine expired, and no interrupt
ExpiryTo ==
    state_machine_typec([chip EXCEPT !.timer_state = T_ZERO],
                        TickIn({}, <<>>), TickEnv(W0)).conn_state

\* C17: the T_TYPEC_SINK_WAIT_CAP deadline armed in policy_snk_discovery
\* never makes policy_snk_select_cap go to policy_snk_send_hardrst while
\* its Request is in flight
C17_AbandonedTimer ==
    (RequestInFlight /\ chip.timer_state = "T_TYPEC_SINK_WAIT_CAP")
    => ExpiryTo # "policy_snk_send_hardrst"


\* C18: for each of the two timers, expiry is marked (the value is 0 and
\* EVENT_TIMER_* is due to the next tick) only once the duration armed last
\* has elapsed, for every interleaving of fusb_timer_handler with a tick
\* that arms the timer
C18_TimerExpiry ==
    /\ chip.timer_state = T_ZERO => ~hr.state.armed
    /\ chip.timer_mux = T_ZERO => ~hr.mux.armed


\* the memcmp of platform_fusb_notify finds the snapshot, its orientation
\* brought up to date, different from the shadow: the call publishes
NotifyPublishes(c) == NotifyOriented(c) # c.notify_cmp

\* platform_fusb_notify has taken the chip to `c1'
NotifiedOnce(c1) ==
    /\ c1.notify_cmp = c1.notify
    /\ ~NotifyPublishes(c1)
    /\ platform_fusb_notify(c1) = c1
    /\ IF NotifyPublishes(chip)
       THEN c1.notify_cmp = [NotifyOriented(chip) EXCEPT !.attention = FALSE]
       ELSE c1.notify_cmp = chip.notify_cmp /\ c1.notify = chip.notify_cmp

\* C19: platform_fusb_notify hands the snapshot over exactly when it
\* differs from the shadow, which then takes its value; in either case the
\* shadow equals the snapshot afterwards, and a second call with no change
\* in between publishes nothing and changes nothing
C19_PublishOnChange == NotifiedOnce(platform_fusb_notify(chip))

C19_Witness ==
    /\ NotifyPublishes(chip)
    /\ chip.conn_state = "policy_snk_ready"
    /\ NotifiedOnce(platform_fusb_notify(chip))


\* the machine rests in a ready state: no continuation is due, no timer
\* runs, nothing is latched and nothing is being transmitted
AtRest ==
    /\ chip.conn_state \in ReadyStates
    /\ chip.work_continue = {}
    /\ chip.timer_state = T_DISABLED
    /\ chip.timer_mux = T_DISABLED
    /\ chip.hw_tx = "none"
    /\ irq = {}

\* C20: whenever the machine rests in policy_src_ready or policy_snk_ready
\* the snapshot published last equals the current notify snapshot
C20_PublishedAtRest ==
    AtRest => chip.notify_cmp = chip.notify


(***************************************************************************)
(* Two ports.  `static int retry' of tcpc_alert is one object for every    *)
(* port the driver has probed; chip.retry stands for it.  The second port  *)
(* is a source that sends hard resets to a partner of its own, and of its  *)
(* ticks the one that reads INTERRUPTA_HARDSENT is what reaches the first  *)
(* port.                                                                   *)
(***************************************************************************)

\* tcpc_alert of the second port reads INTERRUPTA_HARDSENT
OtherHardSent ==
    /\ chip' = [chip EXCEPT !.retry = IF @ = 0 THEN 1 ELSE 0]
    /\ UNCHANGED <<cable, vbus, rx_fifo, irq, scn, used, same_run, attempts,
                   resets, wq, hr, sent>>

NextPorts ==
    \/ ResetTick
    \/ TimerStateExpire
    \/ TimerMuxExpire
    \/ CableChange
    \/ OtherHardSent

SpecPorts == InitReset /\ [][NextPorts]_vars

\* the context of the port, the object shared with the other ports left out
OwnContext(c) == [c EXCEPT !.retry = 0]

\* C21: an event on the other port leaves the handling of this port's
\* events as it was: whatever this port reads next from its transceiver,
\* the tick leaves the same port context as it would have left before the
\* other port's event
C21_Partitioned ==
    [][OtherHardSent =>
         \A ints \in IntSets(chip, cable, scn) :
             OwnContext(TickOf(ints, <<>>)')
                 = OwnContext(TickOf(ints, <<>>))]_vars


\* the transceiver has latched nothing, neither timer has expired and no
\* state function has asked to be run again
NothingPending ==
    /\ irq = {}
    /\ chip.timer_state # T_ZERO
    /\ chip.timer_mux # T_ZERO
    /\ chip.work_continue = {}

\* C22: a tick that finds no interrupt bit, no expired timer and no
\* work_continue leaves the whole port context as it found it
C22_SpuriousTick ==
    NothingPending => TickOf({}, <<>>) = chip

C22_Witness ==
    /\ NothingPending
    /\ chip.conn_state = "policy_src_send_caps"
    /\ chip.sub_state = 2
    /\ chip.timer_state = "T_SENDER_RESPONSE"


\* the tick that follows finds the debounce timer expired in an attach_wait_*
\* state and takes a sample of the CC lines: in attach_wait_sink VBUS with a
\* source role to try, or tried, leaves the state before the sample
TakesSample ==
    /\ chip.conn_state \in WaitStates
    /\ chip.timer_mux = T_ZERO
    /\ chip'.timer_mux # T_ZERO
    /\ ~(/\ chip.conn_state = "attach_wait_sink"
         /\ tcpm_check_vbus(TickEnv(W0))
         /\ \/ chip.try_role_complete
            \/ chip.role = "ROLE_MODE_DRP" /\ chip.try_role = "ROLE_MODE_DFP")

\* the pair tcpm_get_cc measures
CcSample == tcpm_get_cc(chip, cable)

\* C23: a sample that differs from the stored pair sets debounce_cnt to 0
\* and replaces the stored pair, an identical sample increases debounce_cnt
\* by exactly one, and debounce_cnt is 0 when an attach_wait_* state is
\* entered
C23_DebounceCounter ==
    [][/\ (TakesSample /\ CcSample # <<chip.cc1, chip.cc2>>)
          => /\ chip'.debounce_cnt = 0
             /\ <<chip'.cc1, chip'.cc2>> = CcSample
       /\ (TakesSample /\ CcSample = <<chip.cc1, chip.cc2>>)
          => chip'.debounce_cnt = chip.debounce_cnt + 1
       /\ (chip'.conn_state \in WaitStates
           /\ chip'.conn_state # chip.conn_state)
          => chip'.debounce_cnt = 0]_vars

\* a changed sample has been taken in the middle of a debounce
C23_Witness ==
    /\ chip.conn_state \in WaitStates
    /\ chip.debounce_cnt = 0
    /\ same_run = 0
    /\ <<chip.cc1, chip.cc2>> = CcSample
    /\ cable = Detached


\* the stored pair is Rp on one line and open on the other
RpOpen(c) ==
    \/ c.cc1 = TYPEC_CC_VOLT_RP /\ c.cc2 = TYPEC_CC_VOLT_OPEN
    \/ c.cc2 = TYPEC_CC_VOLT_RP /\ c.cc1 = TYPEC_CC_VOLT_OPEN

\* the debounce has come to its end with the tick
Stable == chip'.debounce_cnt > N_DEBOUNCE_CNT

\* attach_wait_sink is left for attached_sink, or a sample is debounced
SinkDecided ==
    /\ chip.conn_state = "attach_wait_sink"
    /\ \/ chip'.conn_state = "attached_sink"
       \/ TakesSample /\ Stable

\* C24, as stated: attach_wait_sink is left for attached_sink only with a
\* stable sample that reads Rp on one line and open on the other, and any
\* other stable sample takes the port to unattached
C24_SinkOnlyRpOpen ==
    [][SinkDecided =>
         IF Stable /\ RpOpen(chip') THEN chip'.conn_state = "attached_sink"
         ELSE chip'.conn_state = "unattached"]_vars

\* C24: attach_wait_sink is left for attached_sink only with a stable
\* sample that reads Rp on one line and open on the other, or when VBUS is
\* present and the preferred-role try is complete; any other stable sample
\* takes the port to unattached
C24_SinkAttach ==
    [][SinkDecided =>
         IF tcpm_check_vbus(TickEnv(W0)) /\ chip.try_role_complete
         THEN chip'.conn_state = "attached_sink"
         ELSE IF Stable /\ RpOpen(chip')
         THEN chip'.conn_state = "attached_sink"
         ELSE chip'.conn_state = "unattached"]_vars

\* the port has attached as sink on a debounced sample
C24_Witness ==
    /\ chip.conn_state = "attached_sink"
    /\ chip.debounce_cnt > N_DEBOUNCE_CNT
    /\ RpOpen(chip)
    /\ ~chip.try_role_complete


TryStates == {"attach_try_src", "attach_try_snk"}

\* VBUS is present, the port is dual-role with the source role preferred
\* and the try has not been made; the tick that follows runs
\* fusb_state_attach_wait_sink on its timer or fusb_state_attached_sink
TryDfpDue ==
    /\ tcpm_check_vbus(TickEnv(W0))
    /\ chip.role = "ROLE_MODE_DRP"
    /\ chip.try_role = "ROLE_MODE_DFP"
    /\ ~chip.try_role_complete
    /\ \/ chip.conn_state = "attach_wait_sink" /\ chip.timer_mux = T_ZERO
       \/ chip.conn_state = "attached_sink" /\ chip.work_continue # {}

\* C25: with VBUS present, role DRP, try_role DFP and the try not complete
\* attach_wait_sink and attached_sink go to attach_try_src; an attach_try_*
\* state is left with try_role_complete set, which only
\* set_state_unattached clears, and attach_try_src is entered from the sink
\* side only with try_role_complete clear
C25_TryDfp ==
    [][/\ TryDfpDue
          => \A ints \in IntSets(chip, cable, scn) :
                 TickOf(ints, <<>>).conn_state = "attach_try_src"
       /\ (chip.conn_state \in TryStates
           /\ chip'.conn_state # chip.conn_state)
          => chip'.try_role_complete
       /\ (chip.try_role_complete /\ ~chip'.try_role_complete)
          => chip'.conn_state = "unattached"
       /\ (chip.conn_state \in {"attach_wait_sink", "attached_sink"}
           /\ chip'.conn_state = "attach_try_src")
          => ~chip.try_role_complete]_vars

\* the try as source has failed and the port waits as sink
C25_Witness ==
    /\ chip.conn_state = "attach_try_snk"
    /\ chip.try_role = "ROLE_MODE_DFP"
    /\ chip.try_role_complete


(***************************************************************************)
(* The source attached to a sink with alternate modes: the Auto-VDM        *)
(* engine is followed through its steps.  A partner that behaves answers   *)
(* each request, once the request is on the wire, with the ACK of that     *)
(* request and in time; any other partner sends what it likes once the     *)
(* contract is made, or nothing, and does not confirm every frame.         *)
(***************************************************************************)

\* SVIDs a partner reports, and the Discover Modes requests followed
MaxSvids == 2
MaxSent == MaxSvids + 1
\* frames the partner sends in one connection
MaxVdmRx == 9

\* the ACKs of the partner to the command `cmd': the SVIDs are the
\* DisplayPort SVID alone or after another one, the mode object offers pin
\* config C or no pin config at all
Acks(cmd) ==
    IF cmd = VDM_DISCOVERY_ID
    THEN {Vdm(VDM_TYPE_ACK, cmd, <<W(0, 1)>>)}
    ELSE IF cmd = VDM_DISCOVERY_SVIDS
    THEN {Vdm(VDM_TYPE_ACK, cmd, <<W(65281, 0)>>),
          Vdm(VDM_TYPE_ACK, cmd, <<W(1, 65281)>>)}
    ELSE IF cmd = VDM_DISCOVERY_MODES
    THEN {Vdm(VDM_TYPE_ACK, cmd, <<ModeVdo(MODE_DP_PIN_C, 0, 0)>>),
          Vdm(VDM_TYPE_ACK, cmd, <<W(0, 1)>>)}
    ELSE IF cmd = VDM_DP_STATUS_UPDATE
    THEN {Vdm(VDM_TYPE_ACK, cmd, <<W(0, 154)>>)}
    ELSE {Vdm(VDM_TYPE_ACK, cmd, <<>>)}

\* the two partners
Behaved ==
    [name |-> "behaved",
     cfg |-> <<"ROLE_MODE_DRP", "ROLE_MODE_NONE">>,
     cables |-> {SinkPartner},
     unplug |-> FALSE,
     msgs |-> {},
     rx |-> MaxVdmRx,
     ints |-> {"TOGDONE", "TXSENT", "GCRCSENT"}]

Unruly ==
    [name |-> "unruly",
     cfg |-> <<"ROLE_MODE_DRP", "ROLE_MODE_NONE">>,
     cables |-> {SinkPartner},
     unplug |-> FALSE,
     msgs |-> {Vdm(VDM_TYPE_NACK, VDM_DISCOVERY_MODES, <<>>),
               Vdm(VDM_TYPE_ACK, VDM_DP_STATUS_UPDATE, <<W(0, 154)>>)},
     rx |-> MaxVdmRx - 2,
     ints |-> {"TOGDONE", "TXSENT", "RETRYFAIL", "GCRCSENT"}]

\* the command of the VDM request in the transmit FIFO, 0 when the last
\* frame handed to the transmitter is no such request
Requested(c) ==
    IF /\ PACKET_IS_DATA_MSG(c.tx_fifo.head, DMT_VENDERDEFINED)
       /\ GET_VDMHEAD_CMD_TYPE(c.tx_fifo.load[1]) = VDM_TYPE_INIT
    THEN GET_VDMHEAD_CMD(c.tx_fifo.load[1])
    ELSE 0

\* the engine has a request on the wire, confirmed or confirmed by `ints',
\* and no answer yet
Awaiting(c, ints) ==
    /\ c.conn_state = "policy_src_ready"
    /\ c.vdm_state < VDM_STATE_NOTIFY
    /\ \/ c.vdm_send_state = 2
       \/ c.vdm_send_state = 1 /\ "TXSENT" \in ints

\* what the partner can have sent when `ints' is read: the answer that is
\* due, and from the unruly partner in policy_src_ready also the frames of
\* its own
PartnerMsgs(c, ints) ==
    (IF c.conn_state = "policy_src_send_caps"
        /\ (c.sub_state = 2 \/ (c.sub_state = 1 /\ "TXSENT" \in ints))
     THEN {Data(DMT_REQUEST, <<RDO(1)>>)}
     ELSE IF c.conn_state = "policy_src_get_sink_caps"
             /\ (c.sub_state = 2 \/ (c.sub_state = 1 /\ "TXSENT" \in ints))
     THEN {Data(DMT_SINKCAPABILITIES, <<PDO(0, 100, 50)>>)}
     ELSE IF Awaiting(c, ints) THEN Acks(Requested(c))
     ELSE {})
    \cup (IF c.conn_state = "policy_src_ready" THEN scn.msgs ELSE {})

VdmIntSets ==
    {i \in SUBSET (Pending(chip, cable) \cap scn.ints) :
        /\ Cardinality(i) <= MaxInts
        /\ ~({"TXSENT", "RETRYFAIL"} \subseteq i)
        /\ "GCRCSENT" \in i
           => used.rx < scn.rx /\ PartnerMsgs(chip, i) # {}}

VdmFifos(ints) ==
    IF "GCRCSENT" \in ints
    THEN {<<m>> : m \in PartnerMsgs(chip, ints)}
    ELSE {<<>>}

\* the SVIDs of the Discover Modes requests handed to the transmitter since
\* the engine was last reset, once the tick has taken the chip from `c1',
\* the alerts taken, to `c2'
Sent(c1, c2) ==
    IF c2.vdm_state < VDM_STATE_DISCOVERY_MODES THEN <<>>
    ELSE IF /\ c1.hw_tx # "msg" /\ c2.hw_tx = "msg"
            /\ Requested(c2) = VDM_DISCOVERY_MODES
            /\ Len(sent) < MaxSent
    THEN Append(sent, Hi(c2.tx_fifo.load[1]))
    ELSE sent

InitVdm ==
    /\ scn \in {Behaved, Unruly}
    /\ chip = ChipInit(scn.cfg[1], scn.cfg[2])
    /\ cable = SinkPartner
    /\ vbus = FALSE
    /\ rx_fifo = <<>>
    /\ irq = {}
    /\ used = [plugs |-> 1, rx |-> 0]
    /\ same_run = 0
    /\ attempts = 0
    /\ resets = 0
    /\ wq = WqInit
    /\ hr = HrInit
    /\ sent = <<>>

\* fusb302_work_func runs state_machine_typec once
VdmTick ==
    \E ints \in VdmIntSets :
        \E fifo \in VdmFifos(ints) :
            LET c2 == state_machine_typec(chip, TickIn(ints, fifo),
                                          TickEnv(W0))
            IN  /\ TickChip(c2, ints, fifo)
                /\ sent' = Sent(tcpc_alert(chip, TickIn(ints, fifo)), c2)
                /\ UNCHANGED <<resets, wq, hr>>

\* the timer of the state machine expires; the partner that behaves has
\* confirmed and answered before the SenderResponse timer does
VdmTimerState ==
    /\ scn = Behaved => ~Awaiting(chip, {"TXSENT"})
    /\ scn = Behaved => chip.conn_state # "policy_src_send_caps"
    /\ TimerStateExpire

NextVdm ==
    \/ VdmTick
    \/ VdmTimerState
    \/ TimerMuxExpire

SpecVdm == InitVdm /\ [][NextVdm]_vars


\* the tick has handed a VDM request of the engine to the transmitter
VdmRequestStaged ==
    /\ chip'.hw_tx = "msg"
    /\ chip'.tx_state = "tx_busy"
    /\ Requested(chip') # 0
    /\ chip.tx_state # "tx_busy" \/ chip'.tx_fifo # chip.tx_fifo

\* the engine has run: it has staged a request, moved on in a vdm_send_*
\* function or moved vdm_state on
EngineRan ==
    \/ VdmRequestStaged
    \/ chip'.vdm_send_state # chip.vdm_send_state /\ chip'.vdm_send_state # 0
    \/ chip'.vdm_state > chip.vdm_state

\* C26: the Auto-VDM engine runs, and a VDM request of the engine is
\* handed to the transmitter, only in policy_src_ready or policy_snk_ready
\* with notify.data_role DFP and vdm_state before READY, and one tick takes
\* the engine at most one step on
C26_EngineGated ==
    [][EngineRan =>
         /\ chip.conn_state \in ReadyStates
         /\ chip.notify.data_role = DATA_ROLE_DFP
         /\ chip.vdm_state < VDM_STATE_READY
         /\ chip'.vdm_state \in
                {chip.vdm_state, chip.vdm_state + 1, VDM_STATE_ERR}]_vars

\* the engine has a request on the wire in policy_src_ready
C26_Witness ==
    /\ chip.conn_state = "policy_src_ready"
    /\ chip.hw_tx = "msg"
    /\ Requested(chip) = VDM_DISCOVERY_SVIDS


\* the command of the request of a step of the engine
StepCmd(s) ==
    IF s = VDM_STATE_DISCOVERY_ID THEN VDM_DISCOVERY_ID
    ELSE IF s = VDM_STATE_DISCOVERY_SVID THEN VDM_DISCOVERY_SVIDS
    ELSE IF s = VDM_STATE_DISCOVERY_MODES THEN VDM_DISCOVERY_MODES
    ELSE IF s = VDM_STATE_ENTER_MODE THEN VDM_ENTER_MODE
    ELSE IF s = VDM_STATE_UPDATE_STATUS THEN VDM_DP_STATUS_UPDATE
    ELSE VDM_DP_CONFIG

\* the frame received last by the chip `c' is the ACK to the command `cmd'
LastAck(c, cmd) ==
    /\ PACKET_IS_DATA_MSG(c.rec_head, DMT_VENDERDEFINED)
    /\ GET_VDMHEAD_CMD_TYPE(c.rec_load[1]) = VDM_TYPE_ACK
    /\ GET_VDMHEAD_CMD(c.rec_load[1]) = cmd

\* C27: vdm_state moves one step on, from a step with a request only when
\* the ACK to the request of that step has been received, or it moves to
\* ERR from a step before READY, or it is reset to DISCOVERY_ID by the
\* connection state machine (which leaves the ready state); NOTIFY
\* publishes the snapshot on its way to READY
C27_EngineOrder ==
    [][chip'.vdm_state # chip.vdm_state =>
         \/ /\ chip.vdm_state < VDM_STATE_NOTIFY
            /\ chip'.vdm_state = chip.vdm_state + 1
            /\ LastAck(chip', StepCmd(chip.vdm_state))
         \/ /\ chip.vdm_state = VDM_STATE_NOTIFY
            /\ chip'.vdm_state = VDM_STATE_READY
            /\ chip'.notify_cmp = chip'.notify
         \/ /\ chip.vdm_state < VDM_STATE_READY
            /\ chip'.vdm_state = VDM_STATE_ERR
         \/ /\ chip'.vdm_state = VDM_STATE_DISCOVERY_ID
            /\ chip'.conn_state \notin ReadyStates]_vars


\* the SVIDs the partner has reported
Svids(c) == SubSeq(c.vdm_svid, 1, c.vdm_svid_num)

\* what is left to do in DISCOVERY_MODES: the SVIDs not yet answered, then
\* the stages of the request on its way, then the events not yet taken
ModesLeft(c) ==
    48 * (c.vdm_svid_num - (c.val_tmp \div 2))
    + 12 * (3 - c.vdm_send_state)
    + 6 * (IF c.val_tmp % 2 = 0 THEN 1 ELSE 0)
    + 2 * (CASE c.timer_state = T_DISABLED -> 0
             [] c.timer_state = T_ZERO -> 1
             [] OTHER -> 2)
    + (IF c.work_continue # {} THEN 1 ELSE 0)

\* some tick takes the engine on
ModesCanGoOn ==
    \E ints \in VdmIntSets :
        \E fifo \in VdmFifos(ints) :
            LET c2 == state_machine_typec(chip, TickIn(ints, fifo),
                                          TickEnv(W0))
            IN  \/ c2.vdm_state = VDM_STATE_ENTER_MODE
                \/ /\ c2.vdm_state = VDM_STATE_DISCOVERY_MODES
                   /\ ModesLeft(c2) < ModesLeft(chip)

\* C28: with a partner that ACKs every request the Discover Modes requests
\* are sent for the discovered SVIDs in their order, one for each; every
\* step in DISCOVERY_MODES brings the end of the loop nearer and a next
\* step is always possible, so the loop ends; it ends in ENTER_MODE and
\* never in ERR, also when a mode object has neither DFP_D nor UFP_D pin
\* bits
C28_ModesTerminate ==
    [][scn = Behaved =>
         /\ chip'.vdm_state # VDM_STATE_ERR
         /\ chip'.vdm_state = VDM_STATE_DISCOVERY_MODES
            => /\ Len(sent') <= chip'.vdm_svid_num
               /\ sent' = SubSeq(chip'.vdm_svid, 1, Len(sent'))
               /\ ModesCanGoOn'
         /\ (chip.vdm_state = VDM_STATE_DISCOVERY_MODES
             /\ chip'.vdm_state = VDM_STATE_DISCOVERY_MODES
             /\ chip' # chip)
            => ModesLeft(chip') < ModesLeft(chip)
         /\ (chip.vdm_state = VDM_STATE_DISCOVERY_MODES
             /\ chip'.vdm_state # chip.vdm_state)
            => /\ chip'.vdm_state = VDM_STATE_ENTER_MODE
               /\ sent' = Svids(chip')]_vars

\* two SVIDs have been asked for their modes, neither mode object had pin
\* bits, and the engine has gone on
C28_Witness ==
    /\ scn = Behaved
    /\ chip.vdm_state = VDM_STATE_ENTER_MODE
    /\ Len(sent) = 2
    /\ sent = Svids(chip)
    /\ chip.notify.dp_caps = W0

-----------------------------------------------------------------------------
(* The start of the policy engine.                                         *)

\* what fusb_state_src_startup and fusb_state_snk_startup leave behind
StartupReset(c) ==
    /\ c.msg_id = 0
    /\ c.caps_counter = 0
    /\ c.pos_power = 0
    /\ c.vdm_state = VDM_STATE_DISCOVERY_ID
    /\ c.vdm_send_state = 0
    /\ c.partner_cap = Pad7(<<>>)
    /\ ~c.notify.is_pd_connected

\* the state each startup state hands over to
StartupNext ==
    [policy_src_startup |-> "policy_src_send_caps",
     policy_snk_startup |-> "policy_snk_discovery"]

\* the startup state function of this tick has run
StartupRan ==
    /\ chip.conn_state \in DOMAIN StartupNext
    /\ chip'.conn_state = StartupNext[chip.conn_state]

\* C29: when policy_src_startup or policy_snk_startup has run and handed
\* over to policy_src_send_caps or policy_snk_discovery, msg_id,
\* caps_counter and pos_power are 0, the VDM engine is at DISCOVERY_ID with
\* vdm_send_state 0, partner_cap is all zero and is_pd_connected is false
C29_StartupReset ==
    [][StartupRan => StartupReset(chip')]_vars

\* a startup after a hard reset has handed over, on either side
C29_Witness ==
    /\ chip.conn_state \in {"policy_src_send_caps", "policy_snk_discovery"}
    /\ chip.sub_state = 0
    /\ chip.hardrst_count > 0
    /\ StartupReset(chip)

-----------------------------------------------------------------------------
(* The hard reset the port sends.                                          *)

\* the state each hard-reset state hands over to, and the startup state
\* that follows it
HardResetNext ==
    [policy_src_send_hardrst |-> "policy_src_transition_default",
     policy_snk_send_hardrst |-> "policy_snk_transition_default"]
TransitionNext ==
    [policy_src_transition_default |-> "policy_src_startup",
     policy_snk_transition_default |-> "policy_snk_startup"]

\* policy_send_hardrst has set CONTROL3_SEND_HARDRESET and the state has
\* not been left
HardResetSent ==
    /\ chip.conn_state \in DOMAIN HardResetNext
    /\ chip.sub_state = 1
    /\ chip.hw_tx = "hardrst"

\* the ticks that end the sending of the hard reset: the BMC timeout, or
\* the transceiver reporting the hard reset sent
HardResetEnds == {{}, {"HARDSENT"}}

\* every tick that takes the machine from the hard-reset state to the
\* transition_default state of its role has counted the hard reset
HardResetCounted ==
    HardResetSent
    => \A ints \in HardResetEnds :
           LET c2 == TickOf(ints, <<>>)
           IN  c2.conn_state = HardResetNext[chip.conn_state]
               => c2.hardrst_count = chip.hardrst_count + 1

\* the recovery delay of transition_default has elapsed, or on the sink
\* side VBUS has gone and come back
RecoveryOver ==
    \/ chip.sub_state > 0 /\ chip.timer_state = T_ZERO
    \/ /\ chip.conn_state = "policy_snk_transition_default"
       /\ chip.sub_state = 2
       /\ vbus \/ chip.vbus_5v

\* the startup state is entered from transition_default only when the
\* recovery is over
StartupAfterRecovery ==
    chip.conn_state \in DOMAIN TransitionNext
    => \A ints \in IntSets(chip, cable, scn) :
           TickOf(ints, <<>>).conn_state = TransitionNext[chip.conn_state]
           => RecoveryOver

\* C30: every hard reset sent from policy_src_send_hardrst or
\* policy_snk_send_hardrst adds exactly one to hardrst_count before the
\* machine enters the transition_default state of its role, and the startup
\* state of the role is entered again only after the recovery delay, or on
\* the sink side the VBUS cycle, is over
C30_HardResetSequence == HardResetCounted /\ StartupAfterRecovery

-----------------------------------------------------------------------------
(* What one tick chains together.                                          *)

\* the answer to a Request is on its way: Accept staged and handed to the
\* transmitter by policy_src_transition_supply
AcceptStarted(c2) ==
    /\ c2.conn_state = "policy_src_transition_supply"
    /\ c2.sub_state = 1
    /\ PACKET_IS_CONTROL_MSG(c2.tx_fifo.head, CMT_ACCEPT)
    /\ c2.hw_tx = "msg"
    /\ c2.tx_state = "tx_busy"

\* the Request for the selected PDO is on its way
RequestStarted(c2) ==
    /\ PACKET_IS_DATA_MSG(c2.tx_fifo.head, DMT_REQUEST)
    /\ RequestPosition(c2.tx_fifo.load[1]) = c2.pos_power
    /\ c2.hw_tx = "msg"
    /\ c2.tx_state = "tx_busy"

\* the tick in which policy_snk_evaluate_caps runs has selected a PDO
SelectsPdo(c2) ==
    /\ chip.conn_state = "policy_snk_evaluate_caps"
    /\ c2.conn_state # "policy_snk_evaluate_caps"
    /\ c2.pos_power > 0

\* C31: the tick that receives in policy_src_send_caps a Request the source
\* accepts evaluates it and stages and starts sending the Accept; the tick
\* in which policy_snk_evaluate_caps selects a PDO stages the Request for it
\* and starts sending it; neither waits for another event
C31_SameTick ==
    /\ (chip.conn_state = "policy_src_send_caps" /\ chip.sub_state > 1
        /\ Receiving)
       => \A p \in 0..chip.n_caps_used :
              AcceptStarted(TickOf({"GCRCSENT"},
                                   <<Data(DMT_REQUEST, <<RDO(p)>>)>>))
    /\ SelectsPdo(TickOf({}, <<>>)) => RequestStarted(TickOf({}, <<>>))

\* the source has answered a Request in the tick that received it
C31_Witness ==
    /\ AcceptStarted(chip)
    /\ PACKET_IS_DATA_MSG(chip.rec_head, DMT_REQUEST)
    /\ RequestPosition(chip.rec_load[1]) = chip.n_caps_used

-----------------------------------------------------------------------------
(* The event word of a tick.                                               *)

\* the events that drive the state functions
DrivingEvents ==
    {"EVENT_TIMER_STATE", "EVENT_TIMER_MUX", "EVENT_RX", "EVENT_CC"}

\* C32: the event word a tick hands to the state function holds at most one
\* of the expiry of timer_state, the expiry of timer_mux, a reception and a
\* CC change
C32_SingleDrivingEvent ==
    \A ints \in IntSets(chip, cable, scn) :
        \A fifo \in Fifos(ints, scn) :
            Cardinality(TickEvt(chip, TickIn(ints, fifo))
                        \cap DrivingEvents) <= 1

-----------------------------------------------------------------------------
(* The ticks the worker asks for itself.                                   *)

MaxQuiet == 6

\* a tick that finds no interrupt latched and nothing received, the chip
\* being `c'
QuietTick(c) ==
    state_machine_typec(
        c,
        [ints |-> {}, comp |-> CompOf(c, cable), togss |-> TogssOf(c, cable),
         fifo |-> <<>>],
        [cable |-> cable, vbus |-> vbus \/ c.vbus_5v, ub |-> W0])

\* nothing queues the work again: no continuation asked for and no expired
\* timer left to take
Settled(c) ==
    /\ c.work_continue = {}
    /\ c.timer_state # T_ZERO
    /\ c.timer_mux # T_ZERO

\* the chip comes to rest within `n' quiet ticks
RECURSIVE ComesToRest(_, _)
ComesToRest(c, n) ==
    IF Settled(c) THEN TRUE
    ELSE IF n = 0 THEN FALSE
    ELSE ComesToRest(QuietTick(c), n - 1)

\* the source attached to a sink that confirms what it is sent and never
\* answers, with a cable the user can pull at any moment
Unplugged == [Silent EXCEPT !.name = "unplugged", !.unplug = TRUE]

InitQuiet ==
    /\ scn = Unplugged
    /\ chip = ChipInit(scn.cfg[1], scn.cfg[2])
    /\ cable = Detached
    /\ vbus = FALSE
    /\ rx_fifo = <<>>
    /\ irq = {}
    /\ used = [plugs |-> 0, rx |-> 0]
    /\ same_run = 0
    /\ attempts = 0
    /\ resets = 0
    /\ wq = WqInit
    /\ hr = HrInit
    /\ sent = <<>>

SpecQuiet == InitQuiet /\ [][NextReset]_vars

\* C33: from every reachable state the ticks the worker asks for itself,
\* with no interrupt arriving and no timer expiring any more, come to an
\* end
C33_ComesToRest == ComesToRest(chip, MaxQuiet)

\* a quiet tick that changes nothing and asks for the next one
C33_Loop == ~Settled(chip) /\ QuietTick(chip) = chip

-----------------------------------------------------------------------------
(* The Request of the sink.                                                *)

\* this step hands a Request to the transmitter
RequestOut ==
    /\ chip'.hw_tx = "msg"
    /\ PACKET_IS_DATA_MSG(chip'.tx_fifo.head, DMT_REQUEST)
    /\ chip.hw_tx # "msg" \/ chip'.tx_fifo # chip.tx_fifo

\* policy_snk_evaluate_caps has found no PDO it accepts
NoPdoAccepted ==
    /\ chip.conn_state = "policy_snk_evaluate_caps"
    /\ chip'.conn_state = "policy_snk_wait_caps"

\* C34: a Request is handed to the transmitter only in
\* policy_snk_select_cap and with pos_power between 1 and the number of
\* PDOs of the Source_Capabilities received; when policy_snk_evaluate_caps
\* accepts no PDO the machine returns to policy_snk_wait_caps and nothing
\* is transmitted
C34_ValidRequest ==
    [][/\ RequestOut
          => /\ chip'.conn_state = "policy_snk_select_cap"
             /\ chip'.pos_power \in 1..PD_HEADER_CNT(chip'.rec_head)
       /\ NoPdoAccepted
          => /\ chip'.hw_tx = chip.hw_tx
             /\ chip'.tx_fifo = chip.tx_fifo]_vars

-----------------------------------------------------------------------------
(* A partner that asks for swaps.                                          *)

MaxSwapRx == 6

\* a source that offers 5 V, answers the Request and then asks for the
\* roles to be swapped; a sink that requests the 5 V and then asks
SwapSource ==
    [name |-> "swapsource",
     cfg |-> <<"ROLE_MODE_DRP", "ROLE_MODE_NONE">>,
     cables |-> {SourcePartner},
     unplug |-> FALSE,
     msgs |-> {Data(DMT_SOURCECAPABILITIES, <<PDO(0, 100, 50)>>),
               Ctrl(CMT_ACCEPT), Ctrl(CMT_PS_RDY), Ctrl(CMT_PR_SWAP)},
     rx |-> MaxSwapRx,
     ints |-> {"TOGDONE", "TXSENT", "GCRCSENT", "RETRYFAIL"}]

SwapSink ==
    [name |-> "swapsink",
     cfg |-> <<"ROLE_MODE_DRP", "ROLE_MODE_NONE">>,
     cables |-> {SinkPartner},
     unplug |-> FALSE,
     msgs |-> {Data(DMT_REQUEST, <<RDO(1)>>), Ctrl(CMT_PS_RDY),
               Ctrl(CMT_PR_SWAP)},
     rx |-> MaxSwapRx - 2,
     ints |-> {"TOGDONE", "TXSENT", "GCRCSENT", "RETRYFAIL"}]

\* the cable is in, and a source partner supplies VBUS
InitSwap ==
    /\ scn \in {SwapSource, SwapSink}
    /\ chip = ChipInit(scn.cfg[1], scn.cfg[2])
    /\ cable \in scn.cables
    /\ vbus = (cable = SourcePartner)
    /\ rx_fifo = <<>>
    /\ irq = {}
    /\ used = [plugs |-> 1, rx |-> 0]
    /\ same_run = 0
    /\ attempts = 0
    /\ resets = 0
    /\ wq = WqInit
    /\ hr = HrInit
    /\ sent = <<>>

NextSwap == Tick \/ TimerStateExpire \/ TimerMuxExpire

SpecSwap == InitSwap /\ [][NextSwap]_vars

\* the policy states of the source and of the sink the roles are read in
SourceStates ==
    {"policy_src_send_caps", "policy_src_negotiate_cap",
     "policy_src_transition_supply", "policy_src_ready"}
SinkStates ==
    {"policy_snk_wait_caps", "policy_snk_select_cap", "policy_snk_ready"}

\* C35: in policy_src_send_caps, policy_src_negotiate_cap,
\* policy_src_transition_supply and policy_src_ready notify.power_role is
\* SOURCE, and in policy_snk_wait_caps, policy_snk_select_cap and
\* policy_snk_ready it is SINK, power-role swaps included
C35_RoleConsistent ==
    /\ chip.conn_state \in SourceStates
       => chip.notify.power_role = POWER_ROLE_SOURCE
    /\ chip.conn_state \in SinkStates
       => chip.notify.power_role = POWER_ROLE_SINK

-----------------------------------------------------------------------------
(* The VBUS supply of the port.                                            *)

\* the states before the port is attached as a source
PreAttachStates ==
    {"unattached", "attach_wait_sink", "attach_wait_source",
     "attach_wait_audio_acc", "attach_try_src", "attach_try_snk",
     "attached_sink"}

\* C36: in unattached, the attach_wait states, the attach_try states and
\* attached_sink the 5 V supply of VBUS is switched off
C36_NoVbusBeforeAttach ==
    chip.conn_state \in PreAttachStates => ~chip.vbus_5v

\* the port is back in unattached after a connection in which, as a source,
\* it had supplied VBUS and tried to send its capabilities
C36_Witness ==
    /\ chip.conn_state = "unattached"
    /\ chip.caps_counter > 0
    /\ cable = Detached
    /\ ~chip.vbus_5v

\* the policy states of the sink
SinkPolicyStates ==
    {"policy_snk_startup", "policy_snk_discovery", "policy_snk_wait_caps",
     "policy_snk_evaluate_caps", "policy_snk_select_cap",
     "policy_snk_transition_sink", "policy_snk_ready"}

\* C37: in the policy states of the sink, from policy_snk_startup to
\* policy_snk_ready, the 5 V supply of VBUS is switched off, also after a
\* power-role swap that failed or was given up
C37_NoVbusAsSink ==
    chip.conn_state \in SinkPolicyStates => ~chip.vbus_5v

-----------------------------------------------------------------------------
(* Swap requests while the VDM engine runs.                                *)

\* a source that makes the sink the DFP and then asks for further swaps
DataSwapSource ==
    [name |-> "dataswapsource",
     cfg |-> <<"ROLE_MODE_DRP", "ROLE_MODE_NONE">>,
     cables |-> {SourcePartner},
     unplug |-> FALSE,
     msgs |-> {Data(DMT_SOURCECAPABILITIES, <<PDO(0, 100, 50)>>),
               Ctrl(CMT_ACCEPT), Ctrl(CMT_PS_RDY), Ctrl(CMT_DR_SWAP)},
     rx |-> MaxSwapRx - 1,
     ints |-> {"TOGDONE", "TXSENT", "GCRCSENT"}]

InitDataSwap ==
    /\ scn = DataSwapSource
    /\ chip = ChipInit(scn.cfg[1], scn.cfg[2])
    /\ cable \in scn.cables
    /\ vbus = (cable = SourcePartner)
    /\ rx_fifo = <<>>
    /\ irq = {}
    /\ used = [plugs |-> 1, rx |-> 0]
    /\ same_run = 0
    /\ attempts = 0
    /\ resets = 0
    /\ wq = WqInit
    /\ hr = HrInit
    /\ sent = <<>>

SpecDataSwap == InitDataSwap /\ [][NextSwap]_vars

\* the swap requests of the partner
SwapRequests == {CMT_PR_SWAP, CMT_DR_SWAP, CMT_VCONN_SWAP}

\* the states in which a swap request is evaluated
SwapEvaluateStates ==
    {"policy_src_prs_evaluate", "policy_vcs_ufp_evaluate_swap",
     "policy_drs_dfp_evaluate", "policy_drs_ufp_evaluate"}

\* the tick that receives a swap request in the ready state `s' while the
\* engine is active does not take the request up
DeferredIn(s) ==
    (/\ chip.conn_state = s
     /\ VDM_IS_ACTIVE(chip)
     /\ Receiving)
    => \A m \in SwapRequests :
           TickOf({"GCRCSENT"}, <<Ctrl(m)>>).conn_state
               \notin SwapEvaluateStates

\* C39: while the Auto-VDM engine is active (data role DFP, vdm_state
\* before READY) a PR_SWAP, DR_SWAP or VCONN_SWAP received in
\* policy_src_ready or in policy_snk_ready is not taken up: the machine
\* does not enter a swap state
C39_SwapDeferred ==
    DeferredIn("policy_src_ready") /\ DeferredIn("policy_snk_ready")

-----------------------------------------------------------------------------
(* Detach and what is read in the same tick.                               *)

\* the tick that reads `ints' and `fifo' detects a detach: fusb_try_detach
\* executes set_state_unattached
DetachedBy(ints, fifo) ==
    LET a == mux_alert(tcpc_alert(chip, TickIn(ints, fifo)))
    IN  /\ a.conn_state # "unattached"
        /\ DetachCheck(a, TickEvt(chip, TickIn(ints, fifo)),
                       TickEnv(W0)).conn_state = "unattached"

\* what else the tick can find latched: a frame received before the cable
\* went, the end of a transmission
Latched == {{}, {"GCRCSENT"}, {"TXSENT"}, {"GCRCSENT", "TXSENT"}}
LatchedFifo(ints) ==
    IF "GCRCSENT" \in ints THEN <<Ctrl(CMT_SOFTRESET)>> ELSE <<>>

\* C38: a tick in which fusb_try_detach detects the detach ends in
\* unattached, whatever else it reads: a received Soft_Reset, the end of a
\* transmission, expired timers
C38_DetachWins ==
    chip.auto_crc
    => \A ints \in IntSets(chip, cable, scn) :
           \A more \in Latched :
               DetachedBy(ints \cup more, LatchedFifo(ints \cup more))
               => TickOf(ints \cup more,
                         LatchedFifo(ints \cup more)).conn_state
                      = "unattached"


-----------------------------------------------------------------------------
(* ACKs and the request they answer.                                       *)

\* the engine of the chip `c' has the request of the command `cmd' on its
\* way: it is DFP in a ready state at the step of `cmd', the request is the
\* frame handed to the transmitter
Solicited(c, cmd) ==
    /\ c.conn_state \in ReadyStates
    /\ c.notify.data_role = DATA_ROLE_DFP
    /\ c.vdm_state < VDM_STATE_NOTIFY
    /\ StepCmd(c.vdm_state) = cmd
    /\ c.vdm_send_state \in {1, 2}
    /\ Requested(c) = cmd

\* the commands a partner can acknowledge
AckCmds ==
    {VDM_DISCOVERY_ID, VDM_DISCOVERY_SVIDS, VDM_DISCOVERY_MODES,
     VDM_ENTER_MODE, VDM_DP_STATUS_UPDATE, VDM_DP_CONFIG}

\* the tick that receives the ACK `m' to the command `cmd' sets
\* is_enter_mode only if the request was DP_CONFIG and the engine had sent
\* it, and moves the engine no step on if it had not sent the request
AckTaken(cmd, m) ==
    LET c2 == TickOf({"GCRCSENT"}, <<m>>)
    IN  /\ (c2.notify.is_enter_mode /\ ~chip.notify.is_enter_mode)
           => (cmd = VDM_DP_CONFIG /\ Solicited(chip, VDM_DP_CONFIG))
        /\ ~Solicited(chip, cmd)
           => (\/ c2.vdm_state <= chip.vdm_state
               \/ c2.vdm_state = VDM_STATE_ERR)

\* C40: notify.is_enter_mode becomes true only when the port is DFP, the
\* engine is at DP_CONFIG with its request sent and the ACK to DP_CONFIG is
\* received; an ACK the engine did not solicit neither sets is_enter_mode
\* nor moves vdm_state a step on
C40_EnterModeSolicited ==
    (chip.conn_state \in ReadyStates /\ Receiving)
    => \A cmd \in AckCmds : \A m \in Acks(cmd) : AckTaken(cmd, m)

=============================================================================
